---- MODULE Spec2Model ----
(***************************************************************************)
(* Node algebra of the columnar array engine: RecordArray, UnionArray and  *)
(* UnmaskedArray (src/src/libawkward/array/*.cpp).                         *)
(*                                                                         *)
(* A node is a record of one uniform shape (so that any two nodes can be   *)
(* compared); the field `kind` is the C++ class.  Index buffers (tags,     *)
(* index, carry) are sequences of integers holding the 0-based values the  *)
(* C++ buffers hold.  An exception thrown by the C++ code is the node of   *)
(* kind "Error"; it propagates through every constructor and operation.    *)
(***************************************************************************)
EXTENDS Integers, Sequences, FiniteSets, TLC

VARIABLES self, op, args, out, calls

vars == <<self, op, args, out, calls>>

(***************************************************************************)
(* Bounds of the model.                                                    *)
(***************************************************************************)
\* longest tags buffer of a generated union
MaxLen == 2
\* deepest stack of UnmaskedArray wrappers
MaxWrap == 3
\* largest axis asked of offsets_and_flattened
MaxAxis == 3
\* largest depth offsets_and_flattened is entered at
MaxDepth == 1

\* the largest tag an int8 holds
kMaxInt8 == 127

(***************************************************************************)
(* Identities: only the number of rows matters to the node algebra.        *)
(***************************************************************************)
NoIdentities == [has |-> FALSE, len |-> 0]

Identities(n) == [has |-> TRUE, len |-> n]

Identities_getitem_range_nowrap(ids, start, stop) ==
  Identities(stop - start)

Identities_getitem_carry_64(ids, carry) ==
  Identities(Len(carry))

(***************************************************************************)
(* Nodes.                                                                  *)
(***************************************************************************)
Content(kind, identities, parameters) ==
  [kind |-> kind, identities |-> identities, parameters |-> parameters,
   dtype |-> "", data |-> <<>>, contents |-> <<>>, istuple |-> TRUE,
   recordlookup |-> <<>>, length |-> 0, tags |-> <<>>, index |-> <<>>]

\* a thrown exception; `what` is its kind
Error(what) ==
  [Content("Error", NoIdentities, {}) EXCEPT !.dtype = what]

IsError(c) == c.kind = "Error"

\* the first thrown exception among the nodes of a sequence, if any
FirstError(cs) ==
  cs[CHOOSE i \in 1..Len(cs) :
       IsError(cs[i]) /\ \A j \in 1..(i - 1) : ~IsError(cs[j])]

AnyError(cs) == \E i \in 1..Len(cs) : IsError(cs[i])

EmptyArray(identities, parameters) ==
  Content("EmptyArray", identities, parameters)

NumpyArray(identities, parameters, dtype, data) ==
  [Content("NumpyArray", identities, parameters)
     EXCEPT !.dtype = dtype, !.data = data]

IndexedOptionArray64(identities, parameters, index, content) ==
  IF IsError(content) THEN content
  ELSE [Content("IndexedOptionArray64", identities, parameters)
          EXCEPT !.index = index, !.contents = <<content>>]

\* a list layer: row i is content[offsets[i] .. offsets[i + 1])
ListOffsetArray64(identities, parameters, offsets, content) ==
  IF IsError(content) THEN content
  ELSE [Content("ListOffsetArray64", identities, parameters)
          EXCEPT !.index = offsets, !.contents = <<content>>]

IsUnion(c) == c.kind \in {"UnionArray8_32", "UnionArray8_U32", "UnionArray8_64"}

IsOptionOrIndexed(c) ==
  c.kind \in {"IndexedOptionArray64", "UnmaskedArray"}

RECURSIVE length(_)
length(c) ==
  CASE c.kind = "NumpyArray" -> Len(c.data)
    [] c.kind = "RecordArray" -> c.length
    [] IsUnion(c) -> Len(c.tags)
    [] c.kind = "UnmaskedArray" -> length(c.contents[1])
    [] c.kind = "IndexedOptionArray64" -> Len(c.index)
    [] c.kind = "ListOffsetArray64" -> Len(c.index) - 1
    [] OTHER -> 0

(***************************************************************************)
(* Constructors.                                                           *)
(***************************************************************************)
RecordArray(identities, parameters, contents, istuple, recordlookup, len) ==
  IF AnyError(contents) THEN FirstError(contents)
  ELSE IF ~istuple /\ Len(recordlookup) # Len(contents)
  THEN Error("invalid_argument")
  ELSE [Content("RecordArray", identities, parameters)
          EXCEPT !.contents = contents, !.istuple = istuple,
                 !.recordlookup = recordlookup, !.length = len]

minlength(contents) ==
  IF contents = <<>> THEN 0
  ELSE LET lens == {length(contents[i]) : i \in 1..Len(contents)}
       IN CHOOSE m \in lens : \A n \in lens : m <= n

RecordArrayMin(identities, parameters, contents, istuple, recordlookup) ==
  IF AnyError(contents) THEN FirstError(contents)
  ELSE RecordArray(identities, parameters, contents, istuple, recordlookup,
                   minlength(contents))

\* a union built without the two checks of the constructor
UnionArrayOf_unchecked(kind, identities, parameters, tags, index, contents) ==
  IF AnyError(contents) THEN FirstError(contents)
  ELSE [Content(kind, identities, parameters)
          EXCEPT !.tags = tags, !.index = index, !.contents = contents]

UnionArrayOf(kind, identities, parameters, tags, index, contents) ==
  IF AnyError(contents) THEN FirstError(contents)
  ELSE IF contents = <<>> THEN Error("invalid_argument")
  ELSE IF Len(index) < Len(tags) THEN Error("invalid_argument")
  ELSE [Content(kind, identities, parameters)
          EXCEPT !.tags = tags, !.index = index, !.contents = contents]

UnmaskedArray(identities, parameters, content) ==
  IF IsError(content) THEN content
  ELSE [Content("UnmaskedArray", identities, parameters)
          EXCEPT !.contents = <<content>>]

(***************************************************************************)
(* Index buffers and the kernels that fill them.                           *)
(***************************************************************************)
\* [0, 1, ..., len-1]
carry_arange(len) == [i \in 1..len |-> i - 1]

\* buf[start .. stop) of a buffer holding 0-based positions
Index_getitem_range_nowrap(buf, start, stop) ==
  [i \in 1..(stop - start) |-> buf[start + i]]

\* awkward_regularize_rangeslice with step 1: the bounds clipped to [0, len]
regularize_start(start, len) ==
  LET s == IF start < 0 THEN start + len ELSE start
  IN IF s < 0 THEN 0 ELSE IF s > len THEN len ELSE s

regularize_stop(start, stop, len) ==
  LET s == regularize_start(start, len)
      e == IF stop < 0 THEN stop + len ELSE stop
      t == IF e < 0 THEN 0 ELSE IF e > len THEN len ELSE e
  IN IF t < s THEN s ELSE t

(***************************************************************************)
(* Record fields by key.                                                   *)
(***************************************************************************)
Digits == <<"0", "1", "2", "3", "4", "5", "6", "7", "8", "9">>

\* std::to_string of a small non-negative integer
to_string(i) == Digits[i + 1]

\* std::stoi: the integer a key spells, -1 when it spells none
stoi(key) ==
  IF \E d \in 1..Len(Digits) : Digits[d] = key
  THEN (CHOOSE d \in 1..Len(Digits) : Digits[d] = key) - 1
  ELSE -1

\* util::init_recordlookup: the keys "0", "1", ... of a tuple
init_recordlookup(n) == [i \in 1..n |-> to_string(i - 1)]

numfields(c) == Len(c.contents)

\* util::fieldindex: the first position holding the key, else the position
\* the key spells; -1 stands for the invalid_argument it throws
fieldindex(c, key) ==
  IF ~c.istuple /\ \E i \in 1..Len(c.recordlookup) : c.recordlookup[i] = key
  THEN (CHOOSE i \in 1..Len(c.recordlookup) :
          /\ c.recordlookup[i] = key
          /\ \A j \in 1..(i - 1) : c.recordlookup[j] # key) - 1
  ELSE IF 0 <= stoi(key) /\ stoi(key) < numfields(c) THEN stoi(key)
  ELSE -1

\* util::keys
keys(c) ==
  IF c.istuple THEN init_recordlookup(numfields(c)) ELSE c.recordlookup

haskey(c, key) == fieldindex(c, key) >= 0

field(c, key) ==
  IF fieldindex(c, key) < 0 THEN Error("invalid_argument")
  ELSE c.contents[fieldindex(c, key) + 1]

(***************************************************************************)
(* Operations every node has; each dispatches on the class of the node.    *)
(***************************************************************************)
RECURSIVE getitem_range_nowrap(_, _, _)
RECURSIVE carry(_, _)
RECURSIVE getitem_at_nowrap(_, _)
RECURSIVE getitem_field(_, _)
RECURSIVE getitem_fields(_, _)
RECURSIVE validityerror(_)

shallow_copy(c) == c

(***************************************************************************)
(* Leaves and the indexed option node, as far as the three classes use     *)
(* them.                                                                   *)
(***************************************************************************)
NumpyArray_getitem_range_nowrap(c, start, stop) ==
  NumpyArray(IF c.identities.has
               THEN Identities_getitem_range_nowrap(c.identities, start, stop)
               ELSE NoIdentities,
             c.parameters, c.dtype,
             Index_getitem_range_nowrap(c.data, start, stop))

NumpyArray_carry(c, carryindex) ==
  IF \E i \in 1..Len(carryindex) :
       carryindex[i] < 0 \/ carryindex[i] >= Len(c.data)
  THEN Error("ValidityError")
  ELSE NumpyArray(IF c.identities.has
                    THEN Identities_getitem_carry_64(c.identities, carryindex)
                    ELSE NoIdentities,
                  c.parameters, c.dtype,
                  [i \in 1..Len(carryindex) |-> c.data[carryindex[i] + 1]])

IndexedOptionArray64_getitem_range_nowrap(c, start, stop) ==
  IndexedOptionArray64(
    IF c.identities.has
      THEN Identities_getitem_range_nowrap(c.identities, start, stop)
      ELSE NoIdentities,
    c.parameters,
    Index_getitem_range_nowrap(c.index, start, stop),
    c.contents[1])

IndexedOptionArray64_carry(c, carryindex) ==
  IF \E i \in 1..Len(carryindex) :
       carryindex[i] < 0 \/ carryindex[i] >= Len(c.index)
  THEN Error("ValidityError")
  ELSE IndexedOptionArray64(
         IF c.identities.has
           THEN Identities_getitem_carry_64(c.identities, carryindex)
           ELSE NoIdentities,
         c.parameters,
         [i \in 1..Len(carryindex) |-> c.index[carryindex[i] + 1]],
         c.contents[1])

(***************************************************************************)
(* The value of one row, as getitem_at_nowrap resolves it.                 *)
(***************************************************************************)
\* a row of a dense leaf
Value(v) == [k |-> "value", v |-> v, f |-> <<>>]

\* a missing row
None == [k |-> "none", v |-> 0, f |-> <<>>]

\* a row of a record array: the row of each field, by key
Record(c, at) ==
  [k |-> "record", v |-> 0,
   f |-> [key \in {keys(c)[j] : j \in 1..numfields(c)} |->
            getitem_at_nowrap(field(c, key), at)]]

\* util::handle_error on a failure: the exception thrown in place of a row
Raised(message) == [k |-> "raised", v |-> 0, f |-> <<>>, what |-> message]

RecordArray_getitem_at_nowrap(c, at) == Record(c, at)

\* UnionArray_getitem_at_nowrap without its two checks: a row no arm holds
\* reads as missing
UnionArray_getitem_at_nowrap_unchecked(c, at) ==
  LET tag == c.tags[at + 1]
      index == c.index[at + 1]
  IN IF ~(0 <= tag /\ tag < Len(c.contents)) THEN None
     ELSE IF ~(0 <= index /\ index < length(c.contents[tag + 1])) THEN None
     ELSE getitem_at_nowrap(c.contents[tag + 1], index)

\* a negative tag is compared as a size_t and so is not below numcontents
UnionArray_getitem_at_nowrap(c, at) ==
  LET tag == c.tags[at + 1]
      index == c.index[at + 1]
  IN IF ~(0 <= tag /\ tag < Len(c.contents))
     THEN Raised("not 0 <= tag[i] < numcontents")
     ELSE IF ~(0 <= index /\ index < length(c.contents[tag + 1]))
     THEN Raised("index[i] > len(content(tag))")
     ELSE getitem_at_nowrap(c.contents[tag + 1], index)

UnmaskedArray_getitem_at_nowrap(c, at) ==
  getitem_at_nowrap(c.contents[1], at)

getitem_at_nowrap(c, at) ==
  CASE c.kind = "NumpyArray" -> Value(c.data[at + 1])
    [] c.kind = "RecordArray" -> RecordArray_getitem_at_nowrap(c, at)
    [] IsUnion(c) -> UnionArray_getitem_at_nowrap(c, at)
    [] c.kind = "UnmaskedArray" -> UnmaskedArray_getitem_at_nowrap(c, at)
    [] c.kind = "IndexedOptionArray64" ->
         IF c.index[at + 1] < 0 THEN None
         ELSE getitem_at_nowrap(c.contents[1], c.index[at + 1])
    [] OTHER -> None

\* getitem_at of the three classes: a negative position counts from the end
RecordArray_getitem_at(c, at) ==
  LET regular_at == IF at < 0 THEN at + length(c) ELSE at
  IN IF ~(0 <= regular_at /\ regular_at < length(c))
     THEN Raised("index out of range")
     ELSE RecordArray_getitem_at_nowrap(c, regular_at)

UnionArray_getitem_at(c, at) ==
  LET regular_at == IF at < 0 THEN at + length(c) ELSE at
  IN IF ~(0 <= regular_at /\ regular_at < length(c))
     THEN Raised("index out of range")
     ELSE UnionArray_getitem_at_nowrap(c, regular_at)

UnmaskedArray_getitem_at(c, at) ==
  LET regular_at == IF at < 0 THEN at + length(c) ELSE at
  IN IF ~(0 <= regular_at /\ regular_at < length(c))
     THEN Raised("index out of range")
     ELSE UnmaskedArray_getitem_at_nowrap(c, regular_at)

getitem_at(c, at) ==
  CASE c.kind = "RecordArray" -> RecordArray_getitem_at(c, at)
    [] IsUnion(c) -> UnionArray_getitem_at(c, at)
    [] OTHER -> UnmaskedArray_getitem_at(c, at)

\* the rows of a node, in order
Rows(c) == [i \in 1..length(c) |-> getitem_at_nowrap(c, i - 1)]

(***************************************************************************)
(* RecordArray.                                                            *)
(***************************************************************************)
RecordArray_getitem_range_nowrap(c, start, stop) ==
  IF c.contents = <<>>
  THEN RecordArray(c.identities, c.parameters, c.contents, c.istuple,
                   c.recordlookup, stop - start)
  ELSE RecordArray(c.identities, c.parameters,
                   [i \in 1..Len(c.contents) |->
                      getitem_range_nowrap(c.contents[i], start, stop)],
                   c.istuple, c.recordlookup, stop - start)

RecordArray_getitem_range(c, start, stop) ==
  LET regular_start == regularize_start(start, c.length)
      regular_stop == regularize_stop(start, stop, c.length)
  IN IF c.identities.has /\ regular_stop > c.identities.len
     THEN Error("ValidityError")
     ELSE RecordArray_getitem_range_nowrap(c, regular_start, regular_stop)

RecordArray_getitem_field(c, key) ==
  IF IsError(field(c, key)) THEN field(c, key)
  ELSE getitem_range_nowrap(field(c, key), 0, length(c))

RecordArray_getitem_fields(c, ks) ==
  RecordArrayMin(c.identities, c.parameters,
                 [i \in 1..Len(ks) |-> RecordArray_getitem_field(c, ks[i])],
                 c.istuple,
                 IF c.istuple THEN <<>> ELSE ks)

RecordArray_carry(c, carryindex) ==
  RecordArray(IF c.identities.has
                THEN Identities_getitem_carry_64(c.identities, carryindex)
                ELSE NoIdentities,
              c.parameters,
              [i \in 1..Len(c.contents) |-> carry(c.contents[i], carryindex)],
              c.istuple, c.recordlookup, Len(carryindex))

\* s with x put before 0-based position where, or last when where >= Len(s)
InsertField(s, where, x) ==
  IF where >= Len(s) THEN Append(s, x)
  ELSE [i \in 1..(Len(s) + 1) |->
          IF i <= where THEN s[i]
          ELSE IF i = where + 1 THEN x
          ELSE s[i - 1]]

RecordArray_setitem_field_at(c, where, what) ==
  IF where < 0 THEN Error("invalid_argument")
  ELSE IF length(what) # length(c) THEN Error("invalid_argument")
  ELSE RecordArrayMin(c.identities, c.parameters,
                      InsertField(c.contents, where, what),
                      c.istuple,
                      IF c.istuple THEN <<>>
                      ELSE InsertField(c.recordlookup, where,
                                       to_string(where)))

\* RecordArray_setitem_field without the comparison of the two lengths
RecordArray_setitem_field_anylength(c, where, what) ==
  RecordArrayMin(c.identities, c.parameters,
                 Append(c.contents, what),
                 FALSE,
                 IF c.istuple
                 THEN Append(init_recordlookup(numfields(c)), where)
                 ELSE Append(c.recordlookup, where))

RecordArray_setitem_field(c, where, what) ==
  IF length(what) # length(c) THEN Error("invalid_argument")
  ELSE RecordArrayMin(c.identities, c.parameters,
                      Append(c.contents, what),
                      FALSE,
                      IF c.istuple
                      THEN Append(init_recordlookup(numfields(c)), where)
                      ELSE Append(c.recordlookup, where))

RecordArray_astuple(c) ==
  RecordArray(c.identities, c.parameters, c.contents, TRUE, <<>>, c.length)

\* RecordArray_validityerror that also rejects a field exactly as long as
\* the record
RecordArray_validityerror_strict(c) ==
  IF \E i \in 1..numfields(c) : length(c.contents[i]) <= c.length
  THEN "len(field) < len(recordarray)"
  ELSE IF \E i \in 1..numfields(c) : validityerror(c.contents[i]) # ""
  THEN validityerror(c.contents[
         CHOOSE i \in 1..numfields(c) :
           /\ validityerror(c.contents[i]) # ""
           /\ \A j \in 1..(i - 1) : validityerror(c.contents[j]) = ""])
  ELSE ""

RecordArray_validityerror(c) ==
  IF \E i \in 1..numfields(c) : length(c.contents[i]) < c.length
  THEN "len(field) < len(recordarray)"
  ELSE IF \E i \in 1..numfields(c) : validityerror(c.contents[i]) # ""
  THEN validityerror(c.contents[
         CHOOSE i \in 1..numfields(c) :
           /\ validityerror(c.contents[i]) # ""
           /\ \A j \in 1..(i - 1) : validityerror(c.contents[j]) = ""])
  ELSE ""

(***************************************************************************)
(* UnionArray.                                                             *)
(***************************************************************************)
\* awkward_unionarray_regular_index: how many earlier rows carry the same tag
regular_index(tags) ==
  [i \in 1..Len(tags) |->
     Cardinality({j \in 1..(i - 1) : tags[j] = tags[i]})]

\* the entries of index at the rows whose tag is which, in order
RECURSIVE unionarray_project_64(_, _, _)
unionarray_project_64(tags, index, which) ==
  IF tags = <<>> THEN <<>>
  ELSE LET rest == unionarray_project_64(Tail(tags), Tail(index), which)
       IN IF Head(tags) = which THEN <<Head(index)>> \o rest ELSE rest

\* the arm itself, with the rows no tag names
UnionArray_project_wholearm(c, which) ==
  IF ~(0 <= which /\ which < Len(c.contents)) THEN Error("invalid_argument")
  ELSE c.contents[which + 1]

UnionArray_project(c, which) ==
  IF ~(0 <= which /\ which < Len(c.contents)) THEN Error("invalid_argument")
  ELSE IF Len(c.index) < Len(c.tags) THEN Error("ValidityError")
  ELSE carry(c.contents[which + 1],
             unionarray_project_64(c.tags,
                                   SubSeq(c.index, 1, Len(c.tags)), which))

UnionArray_getitem_range_nowrap(c, start, stop) ==
  UnionArrayOf(c.kind,
               IF c.identities.has
                 THEN Identities_getitem_range_nowrap(c.identities, start, stop)
                 ELSE NoIdentities,
               c.parameters,
               Index_getitem_range_nowrap(c.tags, start, stop),
               Index_getitem_range_nowrap(c.index, start, stop),
               c.contents)

UnionArray_getitem_range(c, start, stop) ==
  LET regular_start == regularize_start(start, Len(c.tags))
      regular_stop == regularize_stop(start, stop, Len(c.tags))
  IN IF c.identities.has /\ regular_stop > c.identities.len
     THEN Error("ValidityError")
     ELSE UnionArray_getitem_range_nowrap(c, regular_start, regular_stop)

UnionArray_getitem_field(c, key) ==
  UnionArrayOf(c.kind, c.identities, {}, c.tags, c.index,
               [i \in 1..Len(c.contents) |-> getitem_field(c.contents[i], key)])

UnionArray_getitem_fields(c, ks) ==
  UnionArrayOf(c.kind, c.identities, {}, c.tags, c.index,
               [i \in 1..Len(c.contents) |-> getitem_fields(c.contents[i], ks)])

\* UnionArray_carry with the index buffer left where it was: only the tags
\* are gathered
UnionArray_carry_indexkept(c, carryindex) ==
  IF Len(c.index) < Len(c.tags) THEN Error("ValidityError")
  ELSE IF \E i \in 1..Len(carryindex) :
            carryindex[i] < 0 \/ carryindex[i] >= Len(c.tags)
  THEN Error("ValidityError")
  ELSE UnionArrayOf(c.kind,
                    IF c.identities.has
                      THEN Identities_getitem_carry_64(c.identities, carryindex)
                      ELSE NoIdentities,
                    c.parameters,
                    [i \in 1..Len(carryindex) |-> c.tags[carryindex[i] + 1]],
                    [i \in 1..Len(carryindex) |-> c.index[i]],
                    c.contents)

UnionArray_carry(c, carryindex) ==
  IF Len(c.index) < Len(c.tags) THEN Error("ValidityError")
  ELSE IF \E i \in 1..Len(carryindex) :
            carryindex[i] < 0 \/ carryindex[i] >= Len(c.tags)
  THEN Error("ValidityError")
  ELSE UnionArrayOf(c.kind,
                    IF c.identities.has
                      THEN Identities_getitem_carry_64(c.identities, carryindex)
                      ELSE NoIdentities,
                    c.parameters,
                    [i \in 1..Len(carryindex) |-> c.tags[carryindex[i] + 1]],
                    [i \in 1..Len(carryindex) |-> c.index[carryindex[i] + 1]],
                    c.contents)

\* awkward_unionarray_validity: the union bounds of the validity rules
unionarray_validity(tags, index, lencontents) ==
  IF \E i \in 1..Len(tags) : tags[i] < 0 THEN "tags[i] < 0"
  ELSE IF \E i \in 1..Len(tags) : index[i] < 0 THEN "index[i] < 0"
  ELSE IF \E i \in 1..Len(tags) : tags[i] >= Len(lencontents)
  THEN "tags[i] >= len(contents)"
  ELSE IF \E i \in 1..Len(tags) : index[i] >= lencontents[tags[i] + 1]
  THEN "index[i] >= len(content[tags[i]])"
  ELSE ""

UnionArray_validityerror(c) ==
  LET err == unionarray_validity(
               c.tags, c.index,
               [i \in 1..Len(c.contents) |-> length(c.contents[i])])
  IN IF err # "" THEN err
     ELSE IF \E i \in 1..Len(c.contents) : validityerror(c.contents[i]) # ""
     THEN validityerror(c.contents[
            CHOOSE i \in 1..Len(c.contents) :
              /\ validityerror(c.contents[i]) # ""
              /\ \A j \in 1..(i - 1) : validityerror(c.contents[j]) = ""])
     ELSE ""

(***************************************************************************)
(* UnmaskedArray.                                                          *)
(***************************************************************************)
UnmaskedArray_simplify_optiontype(c) ==
  IF c.contents[1].kind \in {"IndexedOptionArray64", "UnmaskedArray"}
  THEN c.contents[1]
  ELSE shallow_copy(c)

UnmaskedArray_toIndexedOptionArray64(c) ==
  IndexedOptionArray64(c.identities, c.parameters,
                       carry_arange(length(c)), c.contents[1])

UnmaskedArray_getitem_range_nowrap(c, start, stop) ==
  UnmaskedArray(IF c.identities.has
                  THEN Identities_getitem_range_nowrap(c.identities, start, stop)
                  ELSE NoIdentities,
                c.parameters,
                getitem_range_nowrap(c.contents[1], start, stop))

UnmaskedArray_getitem_range(c, start, stop) ==
  LET regular_start == regularize_start(start, length(c))
      regular_stop == regularize_stop(start, stop, length(c))
  IN IF c.identities.has /\ regular_stop > c.identities.len
     THEN Error("ValidityError")
     ELSE UnmaskedArray_getitem_range_nowrap(c, regular_start, regular_stop)

UnmaskedArray_getitem_field(c, key) ==
  UnmaskedArray(c.identities, {}, getitem_field(c.contents[1], key))

UnmaskedArray_getitem_fields(c, ks) ==
  UnmaskedArray(c.identities, {}, getitem_fields(c.contents[1], ks))

UnmaskedArray_carry(c, carryindex) ==
  UnmaskedArray(IF c.identities.has
                  THEN Identities_getitem_carry_64(c.identities, carryindex)
                  ELSE NoIdentities,
                c.parameters,
                carry(c.contents[1], carryindex))

UnmaskedArray_validityerror(c) == validityerror(c.contents[1])

(***************************************************************************)
(* Virtual dispatch.                                                       *)
(***************************************************************************)
\* the rows start .. stop-1 of a list layer share its content
\* the concatenation of the sequences of a sequence
RECURSIVE Flat(_)
Flat(rows) == IF rows = <<>> THEN <<>> ELSE Head(rows) \o Flat(Tail(rows))

\* the list layer whose list j holds the rows picks[j] of content
ListOffsetArray64_of(identities, parameters, picks, content) ==
  ListOffsetArray64(identities, parameters,
                    [j \in 1..(Len(picks) + 1) |->
                       Len(Flat(SubSeq(picks, 1, j - 1)))],
                    carry(content, Flat(picks)))

\* the rows of content that list j of c holds
ListOffsetArray64_rows(c, j) ==
  [i \in 1..(c.index[j + 1] - c.index[j]) |-> c.index[j] + i - 1]

ListOffsetArray64_carry(c, carryindex) ==
  IF \E i \in 1..Len(carryindex) :
       carryindex[i] < 0 \/ carryindex[i] >= length(c)
  THEN Error("ValidityError")
  ELSE ListOffsetArray64_of(
         IF c.identities.has
           THEN Identities_getitem_carry_64(c.identities, carryindex)
           ELSE NoIdentities,
         c.parameters,
         [j \in 1..Len(carryindex) |->
            ListOffsetArray64_rows(c, carryindex[j] + 1)],
         c.contents[1])

ListOffsetArray64_getitem_range_nowrap(c, start, stop) ==
  ListOffsetArray64(c.identities, c.parameters,
                    [i \in 1..(stop - start + 1) |-> c.index[start + i]],
                    c.contents[1])

getitem_range_nowrap(c, start, stop) ==
  CASE c.kind = "NumpyArray" -> NumpyArray_getitem_range_nowrap(c, start, stop)
    [] c.kind = "ListOffsetArray64" ->
         ListOffsetArray64_getitem_range_nowrap(c, start, stop)
    [] c.kind = "RecordArray" -> RecordArray_getitem_range_nowrap(c, start, stop)
    [] IsUnion(c) -> UnionArray_getitem_range_nowrap(c, start, stop)
    [] c.kind = "UnmaskedArray" ->
         UnmaskedArray_getitem_range_nowrap(c, start, stop)
    [] c.kind = "IndexedOptionArray64" ->
         IndexedOptionArray64_getitem_range_nowrap(c, start, stop)
    [] OTHER -> c

getitem_range(c, start, stop) ==
  CASE c.kind = "RecordArray" -> RecordArray_getitem_range(c, start, stop)
    [] IsUnion(c) -> UnionArray_getitem_range(c, start, stop)
    [] c.kind = "UnmaskedArray" -> UnmaskedArray_getitem_range(c, start, stop)
    [] OTHER -> getitem_range_nowrap(c, regularize_start(start, length(c)),
                                     regularize_stop(start, stop, length(c)))

carry(c, carryindex) ==
  CASE c.kind = "NumpyArray" -> NumpyArray_carry(c, carryindex)
    [] c.kind = "RecordArray" -> RecordArray_carry(c, carryindex)
    [] IsUnion(c) -> UnionArray_carry(c, carryindex)
    [] c.kind = "UnmaskedArray" -> UnmaskedArray_carry(c, carryindex)
    [] c.kind = "IndexedOptionArray64" ->
         IndexedOptionArray64_carry(c, carryindex)
    [] c.kind = "ListOffsetArray64" -> ListOffsetArray64_carry(c, carryindex)
    [] OTHER -> c

getitem_field(c, key) ==
  CASE c.kind = "RecordArray" -> RecordArray_getitem_field(c, key)
    [] IsUnion(c) -> UnionArray_getitem_field(c, key)
    [] c.kind = "UnmaskedArray" -> UnmaskedArray_getitem_field(c, key)
    [] c.kind = "IndexedOptionArray64" ->
         IndexedOptionArray64(c.identities, {}, c.index,
                              getitem_field(c.contents[1], key))
    [] c.kind = "Error" -> c
    [] OTHER -> Error("invalid_argument")

getitem_fields(c, ks) ==
  CASE c.kind = "RecordArray" -> RecordArray_getitem_fields(c, ks)
    [] IsUnion(c) -> UnionArray_getitem_fields(c, ks)
    [] c.kind = "UnmaskedArray" -> UnmaskedArray_getitem_fields(c, ks)
    [] c.kind = "IndexedOptionArray64" ->
         IndexedOptionArray64(c.identities, {}, c.index,
                              getitem_fields(c.contents[1], ks))
    [] c.kind = "Error" -> c
    [] OTHER -> Error("invalid_argument")

validityerror(c) ==
  CASE c.kind = "RecordArray" -> RecordArray_validityerror(c)
    [] IsUnion(c) -> UnionArray_validityerror(c)
    [] c.kind = "UnmaskedArray" -> UnmaskedArray_validityerror(c)
    [] c.kind = "IndexedOptionArray64" ->
         IF \E i \in 1..Len(c.index) : c.index[i] >= length(c.contents[1])
         THEN "index[i] >= len(content)"
         ELSE validityerror(c.contents[1])
    [] OTHER -> ""

(***************************************************************************)
(* Merging: mergeable, merge, reverse_merge.                               *)
(***************************************************************************)
RECURSIVE mergeable(_, _, _)
RECURSIVE merge(_, _)
RECURSIVE reverse_merge(_, _)

\* Content::parameters_equal: the two maps compare equal
parameters_equal(c, other) == c.parameters = other.parameters

\* awkward_unionarray_filltags_to8_const: `len` tags, each `base`
unionarray_filltags_to8_const(len, base) == [i \in 1..len |-> base]

\* the first `len` tags copied as they are
unionarray_filltags_to8_from8_nobase(fromtags, len, base) ==
  [i \in 1..len |-> fromtags[i]]

\* awkward_unionarray_filltags_to8_from8: the first `len` tags, each raised by base
unionarray_filltags_to8_from8(fromtags, len, base) ==
  [i \in 1..len |-> fromtags[i] + base]

\* `len` entries that all name row 0
unionarray_fillindex_to64_zeros(len) == [i \in 1..len |-> 0]

\* awkward_unionarray_fillindex_to64_count: 0, 1, ..., len-1
unionarray_fillindex_to64_count(len) == carry_arange(len)

\* awkward_unionarray_fillindex_to64_from{32,U32,64}: the first `len` entries
unionarray_fillindex_to64_from(fromindex, len) ==
  [i \in 1..len |-> fromindex[i]]

\* Content::merge_as_union: self then other as the two arms of a union
merge_as_union(c, other) ==
  UnionArrayOf("UnionArray8_64", NoIdentities, {},
               unionarray_filltags_to8_const(length(c), 0)
                 \o unionarray_filltags_to8_const(length(other), 1),
               unionarray_fillindex_to64_count(length(c))
                 \o unionarray_fillindex_to64_count(length(other)),
               <<shallow_copy(c), other>>)

(***************************************************************************)
(* Leaves and the indexed option node.                                     *)
(***************************************************************************)
EmptyArray_mergeable(c, other, mergebool) == parameters_equal(c, other)

EmptyArray_merge(c, other) == other

NumpyArray_mergeable(c, other, mergebool) ==
  IF ~parameters_equal(c, other) THEN FALSE
  ELSE IF other.kind = "EmptyArray" \/ IsUnion(other) THEN TRUE
  ELSE IF IsOptionOrIndexed(other)
  THEN mergeable(c, other.contents[1], mergebool)
  ELSE IF other.kind = "NumpyArray"
  THEN c.dtype = other.dtype \/ mergebool
  ELSE FALSE

NumpyArray_merge(c, other) ==
  IF ~parameters_equal(c, other) THEN merge_as_union(c, other)
  ELSE IF other.kind = "EmptyArray" THEN shallow_copy(c)
  ELSE IF IsOptionOrIndexed(other) \/ IsUnion(other)
  THEN reverse_merge(other, shallow_copy(c))
  ELSE IF other.kind = "NumpyArray"
  THEN NumpyArray(NoIdentities, c.parameters,
                  IF c.dtype = other.dtype THEN c.dtype ELSE "int64",
                  c.data \o other.data)
  ELSE Error("invalid_argument")

\* the entries of an option index moved by base, the missing ones kept
IndexedOption_rebase(index, base) ==
  [i \in 1..Len(index) |-> IF index[i] < 0 THEN index[i] ELSE index[i] + base]

IndexedOptionArray64_mergeable(c, other, mergebool) ==
  IF ~parameters_equal(c, other) THEN FALSE
  ELSE IF other.kind = "EmptyArray" \/ IsUnion(other) THEN TRUE
  ELSE IF IsOptionOrIndexed(other)
  THEN mergeable(c.contents[1], other.contents[1], mergebool)
  ELSE mergeable(c.contents[1], other, mergebool)

IndexedOptionArray64_reverse_merge(c, other) ==
  IndexedOptionArray64(
    NoIdentities, c.parameters,
    unionarray_fillindex_to64_count(length(other))
      \o IndexedOption_rebase(c.index, length(other)),
    merge(other, c.contents[1]))

IndexedOptionArray64_merge(c, other) ==
  IF ~parameters_equal(c, other) THEN merge_as_union(c, other)
  ELSE IF other.kind = "EmptyArray" THEN shallow_copy(c)
  ELSE IF IsUnion(other) THEN reverse_merge(other, shallow_copy(c))
  ELSE IF other.kind = "IndexedOptionArray64"
  THEN IndexedOptionArray64(
         NoIdentities, c.parameters,
         c.index \o IndexedOption_rebase(other.index, length(c.contents[1])),
         merge(c.contents[1], other.contents[1]))
  ELSE IF other.kind = "UnmaskedArray"
  THEN IndexedOptionArray64(
         NoIdentities, c.parameters,
         c.index \o IndexedOption_rebase(carry_arange(length(other)),
                                         length(c.contents[1])),
         merge(c.contents[1], other.contents[1]))
  ELSE IndexedOptionArray64(
         NoIdentities, c.parameters,
         c.index \o IndexedOption_rebase(carry_arange(length(other)),
                                         length(c.contents[1])),
         merge(c.contents[1], other))

(***************************************************************************)
(* RecordArray.                                                            *)
(***************************************************************************)
\* the sorted key lists of two records are equal
SameKeys(ka, kb) ==
  /\ Len(ka) = Len(kb)
  /\ \A key \in {ka[i] : i \in 1..Len(ka)} \cup {kb[i] : i \in 1..Len(kb)} :
       Cardinality({i \in 1..Len(ka) : ka[i] = key})
         = Cardinality({i \in 1..Len(kb) : kb[i] = key})

RecordArray_mergeable(c, other, mergebool) ==
  IF ~parameters_equal(c, other) THEN FALSE
  ELSE IF other.kind = "EmptyArray" \/ IsUnion(other) THEN TRUE
  ELSE IF IsOptionOrIndexed(other)
  THEN mergeable(c, other.contents[1], mergebool)
  ELSE IF other.kind = "RecordArray"
  THEN IF c.istuple /\ other.istuple
       THEN /\ numfields(c) = numfields(other)
            /\ \A i \in 1..numfields(c) :
                 mergeable(c.contents[i], other.contents[i], mergebool)
       ELSE IF ~c.istuple /\ ~other.istuple
       THEN /\ SameKeys(keys(c), keys(other))
            /\ \A i \in 1..numfields(c) :
                 mergeable(field(c, keys(c)[i]), field(other, keys(c)[i]),
                           mergebool)
       ELSE FALSE
  ELSE FALSE

\* RecordArray_merge_record with the fields merged as stored, not trimmed
\* to the declared lengths
RecordArray_merge_record_untrimmed(c, other) ==
  IF c.istuple = other.istuple /\ numfields(c) = 0 /\ numfields(other) = 0
  THEN RecordArray(NoIdentities, {}, c.contents, TRUE, <<>>,
                   length(c) + length(other))
  ELSE IF c.istuple /\ other.istuple /\ numfields(c) = numfields(other)
  THEN RecordArrayMin(
         NoIdentities, {},
         [i \in 1..numfields(c) |-> merge(c.contents[i], other.contents[i])],
         c.istuple, c.recordlookup)
  ELSE IF ~c.istuple /\ ~other.istuple /\ SameKeys(keys(c), keys(other))
  THEN RecordArrayMin(
         NoIdentities, {},
         [i \in 1..numfields(c) |->
            merge(field(c, keys(c)[i]), field(other, keys(c)[i]))],
         c.istuple, c.recordlookup)
  ELSE Error("invalid_argument")

RecordArray_merge_record(c, other) ==
  LET mylength == length(c)
      theirlength == length(other)
  IN IF c.istuple = other.istuple /\ numfields(c) = 0 /\ numfields(other) = 0
     THEN RecordArray(NoIdentities, {}, c.contents, TRUE, <<>>,
                      mylength + theirlength)
     ELSE IF c.istuple /\ other.istuple /\ numfields(c) = numfields(other)
     THEN RecordArrayMin(
            NoIdentities, {},
            [i \in 1..numfields(c) |->
               merge(getitem_range_nowrap(c.contents[i], 0, mylength),
                     getitem_range_nowrap(other.contents[i], 0, theirlength))],
            c.istuple, c.recordlookup)
     ELSE IF ~c.istuple /\ ~other.istuple /\ SameKeys(keys(c), keys(other))
     THEN RecordArrayMin(
            NoIdentities, {},
            [i \in 1..numfields(c) |->
               merge(getitem_range_nowrap(field(c, keys(c)[i]), 0, mylength),
                     getitem_range_nowrap(field(other, keys(c)[i]), 0,
                                          theirlength))],
            c.istuple, c.recordlookup)
     ELSE Error("invalid_argument")

\* RecordArray_merge that answers an empty array with the empty array
RecordArray_merge_emptywins(c, other) ==
  IF ~parameters_equal(c, other) THEN merge_as_union(c, other)
  ELSE IF other.kind = "EmptyArray" THEN other
  ELSE IF IsOptionOrIndexed(other) \/ IsUnion(other)
  THEN reverse_merge(other, shallow_copy(c))
  ELSE IF other.kind = "RecordArray" THEN RecordArray_merge_record(c, other)
  ELSE Error("invalid_argument")

RecordArray_merge(c, other) ==
  IF ~parameters_equal(c, other) THEN merge_as_union(c, other)
  ELSE IF other.kind = "EmptyArray" THEN shallow_copy(c)
  ELSE IF IsOptionOrIndexed(other) \/ IsUnion(other)
  THEN reverse_merge(other, shallow_copy(c))
  ELSE IF other.kind = "RecordArray" THEN RecordArray_merge_record(c, other)
  ELSE Error("invalid_argument")

(***************************************************************************)
(* UnionArray.                                                             *)
(***************************************************************************)
UnionArray_mergeable(c, other, mergebool) == parameters_equal(c, other)

UnionArray_reverse_merge(c, other) ==
  LET theirlength == length(other)
      mylength == length(c)
      contents == <<other>> \o c.contents
      tags == unionarray_filltags_to8_const(theirlength, 0)
                \o unionarray_filltags_to8_from8(c.tags, mylength, 1)
      index == unionarray_fillindex_to64_count(theirlength)
                 \o unionarray_fillindex_to64_from(c.index, mylength)
  IN IF Len(contents) > kMaxInt8 THEN Error("runtime_error")
     ELSE UnionArrayOf("UnionArray8_64", NoIdentities, {}, tags, index,
                       contents)

UnionArray_merge(c, other) ==
  IF ~parameters_equal(c, other) THEN merge_as_union(c, other)
  ELSE IF other.kind = "EmptyArray" THEN shallow_copy(c)
  ELSE
    LET mylength == length(c)
        theirlength == length(other)
        contents == IF IsUnion(other) THEN c.contents \o other.contents
                    ELSE Append(c.contents, other)
        tags == unionarray_filltags_to8_from8(c.tags, mylength, 0)
                  \o (IF IsUnion(other)
                      THEN unionarray_filltags_to8_from8(
                             other.tags, theirlength, Len(c.contents))
                      ELSE unionarray_filltags_to8_const(
                             theirlength, Len(c.contents)))
        index == unionarray_fillindex_to64_from(c.index, mylength)
                   \o (IF IsUnion(other)
                       THEN unionarray_fillindex_to64_from(
                              other.index, theirlength)
                       ELSE unionarray_fillindex_to64_count(theirlength))
    IN IF Len(contents) > kMaxInt8 THEN Error("runtime_error")
       ELSE UnionArrayOf("UnionArray8_64", NoIdentities, {}, tags, index,
                         contents)

(***************************************************************************)
(* UnmaskedArray.                                                          *)
(***************************************************************************)
UnmaskedArray_mergeable(c, other, mergebool) ==
  IF ~parameters_equal(c, other) THEN FALSE
  ELSE IF other.kind = "EmptyArray" \/ IsUnion(other) THEN TRUE
  ELSE IF IsOptionOrIndexed(other)
  THEN mergeable(c.contents[1], other.contents[1], mergebool)
  ELSE mergeable(c.contents[1], other, mergebool)

UnmaskedArray_reverse_merge(c, other) ==
  IndexedOptionArray64_reverse_merge(UnmaskedArray_toIndexedOptionArray64(c),
                                     other)

UnmaskedArray_merge(c, other) ==
  IndexedOptionArray64_merge(UnmaskedArray_toIndexedOptionArray64(c), other)

(***************************************************************************)
(* Virtual dispatch.                                                       *)
(***************************************************************************)
mergeable(c, other, mergebool) ==
  CASE c.kind = "EmptyArray" -> EmptyArray_mergeable(c, other, mergebool)
    [] c.kind = "NumpyArray" -> NumpyArray_mergeable(c, other, mergebool)
    [] c.kind = "RecordArray" -> RecordArray_mergeable(c, other, mergebool)
    [] IsUnion(c) -> UnionArray_mergeable(c, other, mergebool)
    [] c.kind = "UnmaskedArray" -> UnmaskedArray_mergeable(c, other, mergebool)
    [] c.kind = "IndexedOptionArray64" ->
         IndexedOptionArray64_mergeable(c, other, mergebool)
    [] OTHER -> FALSE

merge(c, other) ==
  CASE IsError(other) -> other
    [] c.kind = "EmptyArray" -> EmptyArray_merge(c, other)
    [] c.kind = "NumpyArray" -> NumpyArray_merge(c, other)
    [] c.kind = "RecordArray" -> RecordArray_merge(c, other)
    [] IsUnion(c) -> UnionArray_merge(c, other)
    [] c.kind = "UnmaskedArray" -> UnmaskedArray_merge(c, other)
    [] c.kind = "IndexedOptionArray64" -> IndexedOptionArray64_merge(c, other)
    [] OTHER -> c

reverse_merge(c, other) ==
  CASE IsError(other) -> other
    [] IsUnion(c) -> UnionArray_reverse_merge(c, other)
    [] c.kind = "UnmaskedArray" -> UnmaskedArray_reverse_merge(c, other)
    [] c.kind = "IndexedOptionArray64" ->
         IndexedOptionArray64_reverse_merge(c, other)
    [] OTHER -> Error("invalid_argument")

(***************************************************************************)
(* UnionArray::simplify_uniontype.                                         *)
(*                                                                         *)
(* The loop state st holds the output buffers tags and index and the       *)
(* canonical arms contents.  The buffers are allocated unwritten: -1       *)
(* marks a slot no kernel call has written yet.                            *)
(***************************************************************************)
\* awkward_unionarray_simplify_one_to8_64: the rows of arm fromwhich go to
\* canonical arm towhich, their index raised by base
unionarray_simplify_one_to8_64(st, fromtags, fromindex, towhich, fromwhich, len, base) ==
  [st EXCEPT
     !.tags = [i \in 1..len |->
                 IF fromtags[i] = fromwhich THEN towhich ELSE st.tags[i]],
     !.index = [i \in 1..len |->
                  IF fromtags[i] = fromwhich THEN fromindex[i] + base
                  ELSE st.index[i]]]

\* awkward_unionarray_simplify8_{32,U32,64}_to8_64: the rows of outer arm
\* outerwhich that the inner union gives to its arm innerwhich go to
\* canonical arm towhich, the inner index raised by base
InnerRow(outertags, outerindex, innertags, innerwhich, outerwhich, i) ==
  /\ outertags[i] = outerwhich
  /\ 0 <= outerindex[i] /\ outerindex[i] < Len(innertags)
  /\ innertags[outerindex[i] + 1] = innerwhich

unionarray_simplify8_64_to8_64(st, outertags, outerindex, innertags, innerindex, towhich, innerwhich, outerwhich, len, base) ==
  [st EXCEPT
     !.tags = [i \in 1..len |->
                 IF InnerRow(outertags, outerindex, innertags, innerwhich,
                             outerwhich, i)
                 THEN towhich ELSE st.tags[i]],
     !.index = [i \in 1..len |->
                  IF InnerRow(outertags, outerindex, innertags, innerwhich,
                              outerwhich, i)
                  THEN innerindex[outerindex[i] + 1] + base
                  ELSE st.index[i]]]

\* the first canonical arm (1-based) the arm merges into, 0 when there is none
simplify_find(contents, arm, mergebool) ==
  IF \E k \in 1..Len(contents) : mergeable(contents[k], arm, mergebool)
  THEN CHOOSE k \in 1..Len(contents) :
         /\ mergeable(contents[k], arm, mergebool)
         /\ \A m \in 1..(k - 1) : ~mergeable(contents[m], arm, mergebool)
  ELSE 0

\* simplify_arm with the rows of a merged arm left at their old index: the
\* base offset, the length of the canonical arm before the merge, is dropped
simplify_arm_nobase(st, c, i, mergebool) ==
  LET arm == c.contents[i + 1]
      k == simplify_find(st.contents, arm, mergebool)
  IN IF k > 0
     THEN [unionarray_simplify_one_to8_64(
             st, c.tags, c.index, k - 1, i, length(c), 0)
             EXCEPT !.contents[k] = merge(st.contents[k], arm)]
     ELSE [unionarray_simplify_one_to8_64(
             st, c.tags, c.index, Len(st.contents), i, length(c), 0)
             EXCEPT !.contents = Append(st.contents, arm)]

\* one arm that is not a union (arm i of c, 0-based)
simplify_arm(st, c, i, mergebool) ==
  LET arm == c.contents[i + 1]
      k == simplify_find(st.contents, arm, mergebool)
  IN IF k > 0
     THEN [unionarray_simplify_one_to8_64(
             st, c.tags, c.index, k - 1, i, length(c),
             length(st.contents[k]))
             EXCEPT !.contents[k] = merge(st.contents[k], arm)]
     ELSE [unionarray_simplify_one_to8_64(
             st, c.tags, c.index, Len(st.contents), i, length(c), 0)
             EXCEPT !.contents = Append(st.contents, arm)]

\* inner arm j of the union that is arm i of c (both 0-based)
simplify_innerarm(st, c, i, j, mergebool) ==
  LET rawcontent == c.contents[i + 1]
      arm == rawcontent.contents[j + 1]
      k == simplify_find(st.contents, arm, mergebool)
  IN IF k > 0
     THEN [unionarray_simplify8_64_to8_64(
             st, c.tags, c.index, rawcontent.tags, rawcontent.index,
             k - 1, j, i, length(c), length(st.contents[k]))
             EXCEPT !.contents[k] = merge(st.contents[k], arm)]
     ELSE [unionarray_simplify8_64_to8_64(
             st, c.tags, c.index, rawcontent.tags, rawcontent.index,
             Len(st.contents), j, i, length(c), 0)
             EXCEPT !.contents = Append(st.contents, arm)]

\* the inner loop: inner arms lo..hi-1 of the union that is arm i of c, in
\* order, ended by the first merge that raises (the range is halved so that
\* the evaluation stays shallow)
RECURSIVE simplify_innerloop(_, _, _, _, _, _)
simplify_innerloop(st, c, i, lo, hi, mergebool) ==
  IF hi <= lo THEN st
  ELSE IF hi = lo + 1 THEN simplify_innerarm(st, c, i, lo, mergebool)
  ELSE LET mid == (lo + hi) \div 2
           done == simplify_innerloop(st, c, i, lo, mid, mergebool)
       IN IF AnyError(done.contents) THEN done
          ELSE simplify_innerloop(done, c, i, mid, hi, mergebool)

\* the outer loop: arms lo..hi-1 of c, in order, ended by the first merge
\* that raises
RECURSIVE simplify_loop(_, _, _, _, _)
simplify_loop(st, c, lo, hi, mergebool) ==
  IF hi <= lo THEN st
  ELSE IF hi = lo + 1
  THEN IF IsUnion(c.contents[lo + 1])
       THEN simplify_innerloop(st, c, lo, 0,
                               Len(c.contents[lo + 1].contents), mergebool)
       ELSE simplify_arm(st, c, lo, mergebool)
  ELSE LET mid == (lo + hi) \div 2
           done == simplify_loop(st, c, lo, mid, mergebool)
       IN IF AnyError(done.contents) THEN done
          ELSE simplify_loop(done, c, mid, hi, mergebool)

\* the loop over the arms: the output buffers and the canonical arms
simplify_canonical(c, mergebool) ==
  simplify_loop([tags |-> [i \in 1..length(c) |-> -1],
                 index |-> [i \in 1..length(c) |-> -1],
                 contents |-> <<>>],
                c, 0, Len(c.contents), mergebool)

UnionArray_simplify_uniontype(c, mergebool) ==
  IF Len(c.index) < length(c) THEN Error("ValidityError")
  ELSE
    LET st == simplify_canonical(c, mergebool)
    IN IF AnyError(st.contents) THEN FirstError(st.contents)
       ELSE IF Len(st.contents) > kMaxInt8 THEN Error("runtime_error")
       ELSE IF Len(st.contents) = 1 THEN carry(st.contents[1], st.index)
       ELSE UnionArrayOf("UnionArray8_64", c.identities, c.parameters,
                         st.tags, st.index, st.contents)

\* Content::shallow_simplify of the three classes
shallow_simplify(c) ==
  CASE IsUnion(c) -> UnionArray_simplify_uniontype(c, FALSE)
    [] c.kind = "UnmaskedArray" -> UnmaskedArray_simplify_optiontype(c)
    [] OTHER -> shallow_copy(c)

(***************************************************************************)
(* setidentities, the one operation that writes to the node it is called   *)
(* on: the node after the call, and whether an exception left the call.    *)
(***************************************************************************)
RECURSIVE setidentities(_, _)

\* a node without children checks the length and takes the identities
Leaf_setidentities(c, identities) ==
  IF identities.has /\ identities.len # length(c)
  THEN [node |-> c, raised |-> TRUE]
  ELSE [node |-> [c EXCEPT !.identities = identities], raised |-> FALSE]

\* the loop over the children: child j is handed ids[j]; the loop ends at the
\* first child that raises, the children after it are not reached
SetChildren(contents, ids) ==
  LET r == [j \in 1..Len(contents) |-> setidentities(contents[j], ids[j])]
      stops == { j \in 1..Len(contents) : r[j].raised }
      last == IF stops = {} THEN Len(contents)
              ELSE CHOOSE j \in stops : \A k \in stops : j <= k
  IN [contents |-> [j \in 1..Len(contents) |->
                      IF j <= last THEN r[j].node ELSE contents[j]],
      raised |-> stops # {}]

\* the node after its children were handed ids, taking identities itself
\* only when no child raised
SetNode(c, identities, ids) ==
  LET ch == SetChildren(c.contents, ids)
  IN [node |-> [c EXCEPT !.contents = ch.contents,
                         !.identities = IF ch.raised THEN @ ELSE identities],
      raised |-> ch.raised]

RecordArray_setidentities(c, identities) ==
  IF ~identities.has
  THEN SetNode(c, identities, [j \in 1..Len(c.contents) |-> NoIdentities])
  ELSE IF length(c) # identities.len THEN [node |-> c, raised |-> TRUE]
  ELSE SetNode(c, identities, [j \in 1..Len(c.contents) |-> identities])

\* awkward_identities_from_unionarray: no row of arm which is named twice
uniquecontents(c, which) ==
  \A i, k \in 1..Len(c.tags) :
    (i # k /\ c.tags[i] = which /\ c.tags[k] = which)
      => c.index[i] # c.index[k]

UnionArray_setidentities(c, identities) ==
  IF ~identities.has
  THEN SetNode(c, identities, [j \in 1..Len(c.contents) |-> NoIdentities])
  ELSE IF Len(c.index) < Len(c.tags) THEN [node |-> c, raised |-> TRUE]
  ELSE IF length(c) # identities.len THEN [node |-> c, raised |-> TRUE]
  ELSE SetNode(c, identities,
               [j \in 1..Len(c.contents) |->
                  IF uniquecontents(c, j - 1)
                  THEN Identities(length(c.contents[j]))
                  ELSE NoIdentities])

UnmaskedArray_setidentities(c, identities) ==
  IF ~identities.has THEN SetNode(c, identities, <<NoIdentities>>)
  ELSE IF length(c) # identities.len THEN [node |-> c, raised |-> TRUE]
  ELSE SetNode(c, identities, <<Identities(length(c.contents[1]))>>)

setidentities(c, identities) ==
  CASE c.kind = "RecordArray" -> RecordArray_setidentities(c, identities)
    [] IsUnion(c) -> UnionArray_setidentities(c, identities)
    [] IsOptionOrIndexed(c) -> UnmaskedArray_setidentities(c, identities)
    [] OTHER -> Leaf_setidentities(c, identities)

(***************************************************************************)
(* Flattening: offsets_and_flattened returns the offsets of the list axis   *)
(* it removed (none when it removed no axis of its own) and the content.    *)
(***************************************************************************)
invalid_argument(message) ==
  [Error("invalid_argument") EXCEPT !.parameters = {<<"message", message>>}]

runtime_error(message) ==
  [Error("runtime_error") EXCEPT !.parameters = {<<"message", message>>}]

\* std::pair<Index64, ContentPtr>
Pair(offsets, content) ==
  [Content("Pair", NoIdentities, {})
     EXCEPT !.index = offsets, !.contents = <<content>>]

\* a non-negative axis is its own wrapped axis; no negative axis is asked for
axis_wrap_if_negative(axis) == axis

RECURSIVE offsets_and_flattened(_, _, _)

\* a flat leaf has no list axis below its own
NumpyArray_offsets_and_flattened(c, axis, depth) ==
  IF axis_wrap_if_negative(axis) = depth
  THEN invalid_argument("axis=0 not allowed for flatten")
  ELSE invalid_argument("axis out of range for flatten")

\* an EmptyArray answers every axis with the offsets [0] and an EmptyArray
EmptyArray_offsets_and_flattened(c, axis, depth) ==
  Pair(<<0>>, EmptyArray(NoIdentities, {}))

\* a list layer gives up its offsets at the axis just below its own
ListOffsetArray64_offsets_and_flattened(c, axis, depth) ==
  LET toaxis == axis_wrap_if_negative(axis)
  IN IF toaxis = depth
     THEN invalid_argument("axis=0 not allowed for flatten")
     ELSE IF toaxis = depth + 1
     THEN Pair([i \in 1..Len(c.index) |-> c.index[i] - c.index[1]],
               getitem_range_nowrap(c.contents[1], c.index[1],
                                    c.index[Len(c.index)]))
     ELSE LET inner == offsets_and_flattened(c.contents[1], axis, depth + 1)
          IN IF IsError(inner) THEN inner
             ELSE Pair(<<>>,
                       ListOffsetArray64(NoIdentities, {}, c.index,
                                         inner.contents[1]))

\* the first field whose flattening raised or came back with offsets
RecordArray_flatten_stop(pairs) ==
  CHOOSE i \in 1..Len(pairs) :
    /\ IsError(pairs[i]) \/ Len(pairs[i].index) # 0
    /\ \A j \in 1..(i - 1) : ~IsError(pairs[j]) /\ Len(pairs[j].index) = 0

\* RecordArray_offsets_and_flattened without the check of the record's own
\* axis
RecordArray_offsets_and_flattened_ownaxis(c, axis, depth) ==
  LET toaxis == axis_wrap_if_negative(axis)
      pairs == [i \in 1..Len(c.contents) |->
                  LET trimmed == getitem_range(c.contents[i], 0, length(c))
                  IN IF IsError(trimmed) THEN trimmed
                     ELSE offsets_and_flattened(trimmed, axis, depth)]
  IN IF toaxis = depth
     THEN invalid_argument("axis=0 not allowed for flatten")
     ELSE IF \E i \in 1..Len(pairs) :
               IsError(pairs[i]) \/ Len(pairs[i].index) # 0
     THEN LET bad == pairs[RecordArray_flatten_stop(pairs)]
          IN IF IsError(bad) THEN bad
             ELSE runtime_error("RecordArray content with axis > depth + 1 returned a non-empty offsets from offsets_and_flattened")
     ELSE Pair(<<>>,
               RecordArrayMin(NoIdentities, {},
                              [i \in 1..Len(pairs) |-> pairs[i].contents[1]],
                              c.istuple, c.recordlookup))

RecordArray_offsets_and_flattened(c, axis, depth) ==
  LET toaxis == axis_wrap_if_negative(axis)
      pairs == [i \in 1..Len(c.contents) |->
                  LET trimmed == getitem_range(c.contents[i], 0, length(c))
                  IN IF IsError(trimmed) THEN trimmed
                     ELSE offsets_and_flattened(trimmed, axis, depth)]
  IN IF toaxis = depth
     THEN invalid_argument("axis=0 not allowed for flatten")
     ELSE IF toaxis = depth + 1
     THEN invalid_argument("arrays of records cannot be flattened (but their contents can be; try a different 'axis')")
     ELSE IF \E i \in 1..Len(pairs) :
               IsError(pairs[i]) \/ Len(pairs[i].index) # 0
     THEN LET bad == pairs[RecordArray_flatten_stop(pairs)]
          IN IF IsError(bad) THEN bad
             ELSE runtime_error("RecordArray content with axis > depth + 1 returned a non-empty offsets from offsets_and_flattened")
     ELSE Pair(<<>>,
               RecordArrayMin(NoIdentities, {},
                              [i \in 1..Len(pairs) |-> pairs[i].contents[1]],
                              c.istuple, c.recordlookup))

\* awkward_unionarray_flatten_length_64 and awkward_unionarray_flatten_combine_64:
\* row i of the union is the list offsets[tag][index] .. offsets[tag][index + 1]
\* of arm tag; its elements keep the tag and take their positions as index
RECURSIVE unionarray_flatten_combine_64(_, _, _, _, _)
unionarray_flatten_combine_64(st, tags, index, offsets, i) ==
  IF i > Len(tags) THEN st
  ELSE LET tag == tags[i]
           start == offsets[tag + 1][index[i] + 1]
           stop == offsets[tag + 1][index[i] + 2]
       IN unionarray_flatten_combine_64(
            [totags |-> st.totags \o [j \in 1..(stop - start) |-> tag],
             toindex |-> st.toindex
                           \o [j \in 1..(stop - start) |-> start + j - 1],
             tooffsets |-> Append(st.tooffsets,
                                  st.tooffsets[Len(st.tooffsets)]
                                    + stop - start)],
            tags, index, offsets, i + 1)

\* every row reads two entries of the offsets of its arm
FlattenReadsInBounds(c, pairs) ==
  \A i \in 1..Len(c.tags) :
    /\ 0 <= c.tags[i] /\ c.tags[i] < Len(pairs)
    /\ 0 <= c.index[i]
    /\ c.index[i] + 2 <= Len(pairs[c.tags[i] + 1].index)

UnionArray_offsets_and_flattened(c, axis, depth) ==
  LET toaxis == axis_wrap_if_negative(axis)
      pairs == [i \in 1..Len(c.contents) |->
                  offsets_and_flattened(c.contents[i], axis, depth)]
  IN IF toaxis = depth
     THEN invalid_argument("axis=0 not allowed for flatten")
     ELSE IF AnyError(pairs) THEN FirstError(pairs)
     ELSE LET has_offsets == Len(pairs[Len(pairs)].index) # 0
              contents == [i \in 1..Len(pairs) |-> pairs[i].contents[1]]
          IN IF has_offsets
             THEN IF ~FlattenReadsInBounds(c, pairs)
                  THEN Content("Undefined", NoIdentities, {})
                  ELSE LET st == unionarray_flatten_combine_64(
                                   [totags |-> <<>>, toindex |-> <<>>,
                                    tooffsets |-> <<0>>],
                                   c.tags, c.index,
                                   [i \in 1..Len(pairs) |-> pairs[i].index],
                                   1)
                       IN Pair(st.tooffsets,
                               UnionArrayOf("UnionArray8_64", NoIdentities,
                                            {}, st.totags, st.toindex,
                                            contents))
             ELSE Pair(<<>>,
                       UnionArrayOf(c.kind, NoIdentities, {}, c.tags,
                                    c.index, contents))

UnmaskedArray_offsets_and_flattened(c, axis, depth) ==
  LET toaxis == axis_wrap_if_negative(axis)
      offsets_flattened == offsets_and_flattened(c.contents[1], axis, depth)
  IN IF toaxis = depth
     THEN invalid_argument("axis=0 not allowed for flatten")
     ELSE IF IsError(offsets_flattened) THEN offsets_flattened
     ELSE IF Len(offsets_flattened.index) = 0
     THEN Pair(offsets_flattened.index,
               UnmaskedArray(NoIdentities, {}, offsets_flattened.contents[1]))
     ELSE offsets_flattened

offsets_and_flattened(c, axis, depth) ==
  CASE c.kind = "NumpyArray" -> NumpyArray_offsets_and_flattened(c, axis, depth)
    [] c.kind = "EmptyArray" -> EmptyArray_offsets_and_flattened(c, axis, depth)
    [] c.kind = "ListOffsetArray64" ->
         ListOffsetArray64_offsets_and_flattened(c, axis, depth)
    [] c.kind = "RecordArray" -> RecordArray_offsets_and_flattened(c, axis, depth)
    [] IsUnion(c) -> UnionArray_offsets_and_flattened(c, axis, depth)
    [] c.kind = "UnmaskedArray" ->
         UnmaskedArray_offsets_and_flattened(c, axis, depth)

(***************************************************************************)
(* is_none(axis, depth): the mask of the missing values at an axis.        *)
(***************************************************************************)
RECURSIVE is_none(_, _, _)

\* awkward_zero_mask8 wrapped in a boolean leaf
zero_mask8(len) ==
  NumpyArray(NoIdentities, {}, "bool", [i \in 1..len |-> 0])

\* a leaf has no axis below its own
NumpyArray_is_none(c, axis, depth) ==
  IF axis_wrap_if_negative(axis) = depth THEN zero_mask8(length(c))
  ELSE invalid_argument("axis out of range")

\* a list layer is one level of depth
ListOffsetArray64_is_none(c, axis, depth) ==
  IF axis_wrap_if_negative(axis) = depth THEN zero_mask8(length(c))
  ELSE ListOffsetArray64(NoIdentities, {}, c.index,
                         is_none(c.contents[1], axis, depth + 1))

RecordArray_is_none(c, axis, depth) ==
  IF axis_wrap_if_negative(axis) = depth THEN zero_mask8(length(c))
  ELSE RecordArray(NoIdentities, {},
                   [i \in 1..Len(c.contents) |->
                      is_none(c.contents[i], axis, depth)],
                   c.istuple, c.recordlookup, c.length)

UnionArray_is_none(c, axis, depth) ==
  IF axis_wrap_if_negative(axis) = depth THEN zero_mask8(length(c))
  ELSE LET union == UnionArrayOf(c.kind, NoIdentities, {}, c.tags, c.index,
                                 [i \in 1..Len(c.contents) |->
                                    is_none(c.contents[i], axis, depth + 1)])
       IN IF IsError(union) THEN union
          ELSE UnionArray_simplify_uniontype(union, FALSE)

UnmaskedArray_is_none(c, axis, depth) ==
  IF axis_wrap_if_negative(axis) = depth THEN zero_mask8(length(c))
  ELSE UnmaskedArray(NoIdentities, {}, is_none(c.contents[1], axis, depth))

is_none(c, axis, depth) ==
  CASE c.kind = "ListOffsetArray64" -> ListOffsetArray64_is_none(c, axis, depth)
    [] c.kind = "RecordArray" -> RecordArray_is_none(c, axis, depth)
    [] IsUnion(c) -> UnionArray_is_none(c, axis, depth)
    [] c.kind = "UnmaskedArray" -> UnmaskedArray_is_none(c, axis, depth)
    [] OTHER -> NumpyArray_is_none(c, axis, depth)

(***************************************************************************)
(* rpad(target, axis, depth) and rpad_and_clip(target, axis, depth): the   *)
(* rows at an axis padded with missing values up to target, and cut down   *)
(* to target when clipping.                                                *)
(***************************************************************************)
RECURSIVE rpad(_, _, _, _)
RECURSIVE rpad_and_clip(_, _, _, _)

\* awkward_index_rpad_and_clip_axis0_64: the rows in order, then -1
index_rpad_and_clip_axis0_64(target, len) ==
  [i \in 1..target |-> IF i <= len THEN i - 1 ELSE -1]

\* the axis-0 helper: the node as a whole behind an option index of target
\* rows; without clipping a node that is long enough is returned as it is
rpad_axis0(c, target, clip) ==
  IF ~clip /\ target < length(c) THEN shallow_copy(c)
  ELSE IndexedOptionArray64(NoIdentities, {},
                            index_rpad_and_clip_axis0_64(target, length(c)),
                            shallow_copy(c))

\* a leaf pads its own axis only
NumpyArray_rpad(c, target, axis, depth, clip) ==
  IF axis_wrap_if_negative(axis) = depth THEN rpad_axis0(c, target, clip)
  ELSE invalid_argument("axis exceeds the depth of this array")

\* a list layer pads each of its lists at the axis below its own
ListOffsetArray64_rpad(c, target, axis, depth, clip) ==
  LET toaxis == axis_wrap_if_negative(axis)
      picks == [j \in 1..length(c) |->
                  LET rows == ListOffsetArray64_rows(c, j)
                      n == IF clip \/ target > Len(rows) THEN target
                           ELSE Len(rows)
                  IN [i \in 1..n |-> IF i <= Len(rows) THEN rows[i] ELSE -1]]
  IN IF toaxis = depth THEN rpad_axis0(c, target, clip)
     ELSE IF toaxis = depth + 1
     THEN ListOffsetArray64(
            NoIdentities, c.parameters,
            [j \in 1..(Len(picks) + 1) |-> Len(Flat(SubSeq(picks, 1, j - 1)))],
            IndexedOptionArray64(NoIdentities, {}, Flat(picks), c.contents[1]))
     ELSE ListOffsetArray64(NoIdentities, c.parameters, c.index,
                            IF clip
                              THEN rpad_and_clip(c.contents[1], target, axis,
                                                 depth + 1)
                              ELSE rpad(c.contents[1], target, axis, depth + 1))

RecordArray_rpad(c, target, axis, depth) ==
  LET toaxis == axis_wrap_if_negative(axis)
      contents == [i \in 1..Len(c.contents) |->
                     rpad(c.contents[i], target, toaxis, depth)]
  IN IF toaxis = depth THEN rpad_axis0(c, target, FALSE)
     ELSE IF contents = <<>>
     THEN RecordArray(c.identities, c.parameters, contents, c.istuple,
                      c.recordlookup, c.length)
     ELSE RecordArrayMin(c.identities, c.parameters, contents, c.istuple,
                         c.recordlookup)

RecordArray_rpad_and_clip(c, target, axis, depth) ==
  LET toaxis == axis_wrap_if_negative(axis)
      contents == [i \in 1..Len(c.contents) |->
                     rpad_and_clip(c.contents[i], target, toaxis, depth)]
  IN IF toaxis = depth THEN rpad_axis0(c, target, TRUE)
     ELSE IF contents = <<>>
     THEN RecordArray(c.identities, c.parameters, contents, c.istuple,
                      c.recordlookup, c.length)
     ELSE RecordArrayMin(c.identities, c.parameters, contents, c.istuple,
                         c.recordlookup)

UnionArray_rpad(c, target, axis, depth) ==
  LET toaxis == axis_wrap_if_negative(axis)
      union == UnionArrayOf(c.kind, c.identities, c.parameters, c.tags,
                            c.index,
                            [i \in 1..Len(c.contents) |->
                               rpad(c.contents[i], target, axis, depth)])
  IN IF toaxis = depth THEN rpad_axis0(c, target, FALSE)
     ELSE IF IsError(union) THEN union
     ELSE UnionArray_simplify_uniontype(union, FALSE)

UnionArray_rpad_and_clip(c, target, axis, depth) ==
  LET toaxis == axis_wrap_if_negative(axis)
      union == UnionArrayOf(c.kind, c.identities, c.parameters, c.tags,
                            c.index,
                            [i \in 1..Len(c.contents) |->
                               rpad_and_clip(c.contents[i], target, axis,
                                             depth)])
  IN IF toaxis = depth THEN rpad_axis0(c, target, TRUE)
     ELSE IF IsError(union) THEN union
     ELSE UnionArray_simplify_uniontype(union, FALSE)

UnmaskedArray_rpad(c, target, axis, depth) ==
  LET toaxis == axis_wrap_if_negative(axis)
  IN IF toaxis = depth THEN rpad_axis0(c, target, FALSE)
     ELSE IF toaxis = depth + 1
     THEN rpad(c.contents[1], target, axis, depth)
     ELSE UnmaskedArray(NoIdentities, c.parameters,
                        rpad(c.contents[1], target, axis, depth))

UnmaskedArray_rpad_and_clip(c, target, axis, depth) ==
  LET toaxis == axis_wrap_if_negative(axis)
  IN IF toaxis = depth THEN rpad_axis0(c, target, FALSE)
     ELSE IF toaxis = depth + 1
     THEN rpad_and_clip(c.contents[1], target, axis, depth)
     ELSE UnmaskedArray(NoIdentities, c.parameters,
                        rpad_and_clip(c.contents[1], target, axis, depth))

rpad(c, target, axis, depth) ==
  CASE c.kind = "ListOffsetArray64" ->
         ListOffsetArray64_rpad(c, target, axis, depth, FALSE)
    [] c.kind = "RecordArray" -> RecordArray_rpad(c, target, axis, depth)
    [] IsUnion(c) -> UnionArray_rpad(c, target, axis, depth)
    [] c.kind = "UnmaskedArray" -> UnmaskedArray_rpad(c, target, axis, depth)
    [] OTHER -> NumpyArray_rpad(c, target, axis, depth, FALSE)

rpad_and_clip(c, target, axis, depth) ==
  CASE c.kind = "ListOffsetArray64" ->
         ListOffsetArray64_rpad(c, target, axis, depth, TRUE)
    [] c.kind = "RecordArray" ->
         RecordArray_rpad_and_clip(c, target, axis, depth)
    [] IsUnion(c) -> UnionArray_rpad_and_clip(c, target, axis, depth)
    [] c.kind = "UnmaskedArray" ->
         UnmaskedArray_rpad_and_clip(c, target, axis, depth)
    [] OTHER -> NumpyArray_rpad(c, target, axis, depth, TRUE)

(***************************************************************************)
(* Slicing: getitem_next(head, tail, advanced) with an empty advanced      *)
(* index.  A call returns the node and the member functions it entered,    *)
(* each as <<class, member>>.                                              *)
(***************************************************************************)
\* a slice item of kind k with its payload; a null head is the kind "null"
SliceItem(k, a) == [k |-> k, a |-> a]

\* Slice::head
Slice_head(tail) == IF tail = <<>> THEN SliceItem("null", 0) ELSE Head(tail)

\* Slice::tail
Slice_tail(tail) == SubSeq(tail, 2, Len(tail))

\* Slice::dimlength
Slice_dimlength(tail) ==
  Cardinality({i \in 1..Len(tail) : tail[i].k \in {"at", "range", "array"}})

\* SliceItem::preserves_type
preserves_type(head) == head.k \notin {"at", "newaxis"}

RECURSIVE minmax_depth(_)
minmax_depth(c) ==
  LET below == {minmax_depth(c.contents[i]) : i \in 1..Len(c.contents)}
      least == CHOOSE m \in below : \A n \in below : m[1] <= n[1]
      most == CHOOSE m \in below : \A n \in below : m[2] >= n[2]
  IN IF below = {} THEN <<1, 1>>
     ELSE IF c.kind = "ListOffsetArray64" THEN <<least[1] + 1, most[2] + 1>>
     ELSE <<least[1], most[2]>>

RECURSIVE getitem_next(_, _, _)

\* a call that enters member of class and goes on as r
Entered(class, member, r) ==
  [node |-> r.node, calls |-> {<<class, member>>} \cup r.calls]

Returns(node) == [node |-> node, calls |-> {}]

\* r.node.getitem_next(head, tail), unless r raised
Continue(r, head, tail) ==
  IF IsError(r.node) THEN r
  ELSE LET n == getitem_next(r.node, head, tail)
       IN [node |-> n.node, calls |-> r.calls \cup n.calls]

\* the results of a loop that ends at the first exception
UpToError(rs) ==
  LET stops == {i \in 1..Len(rs) : IsError(rs[i].node)}
      last == IF stops = {} THEN Len(rs)
              ELSE CHOOSE i \in stops : \A k \in stops : i <= k
  IN UNION {rs[i].calls : i \in 1..last}

\* the handlers of the base class for the heads a class does not consume
Content_getitem_next(c, head, tail) ==
  LET nexthead == Slice_head(tail)
      nexttail == Slice_tail(tail)
  IN CASE head.k = "field" ->
            Entered("Content", "getitem_next(field)",
                    Continue(Returns(getitem_field(c, head.a)),
                             nexthead, nexttail))
       [] head.k = "fields" ->
            Entered("Content", "getitem_next(fields)",
                    Continue(Returns(getitem_fields(c, head.a)),
                             nexthead, nexttail))
       [] head.k = "newaxis" ->
            LET r == getitem_next(c, nexthead, nexttail)
            IN Entered("Content", "getitem_next(newaxis)",
                       [r EXCEPT !.node =
                          IF IsError(@) THEN @
                          ELSE ListOffsetArray64(NoIdentities, {},
                                                 <<0, length(@)>>, @)])
       [] head.k = "ellipsis" ->
            LET mindepth == minmax_depth(c)[1]
                maxdepth == minmax_depth(c)[2]
                dims == Slice_dimlength(tail)
            IN Entered("Content", "getitem_next(ellipsis)",
                 IF tail = <<>> \/ (mindepth - 1 = dims /\ maxdepth - 1 = dims)
                 THEN getitem_next(c, nexthead, nexttail)
                 ELSE IF mindepth - 1 = dims \/ maxdepth - 1 = dims
                 THEN Returns(Error("invalid_argument"))
                 ELSE getitem_next(c, SliceItem("range", <<0, kMaxInt8>>),
                                   <<head>> \o tail))
       [] head.k = "missing" ->
            LET r == getitem_next(c, head.a.content, tail)
            IN Entered("Content", "getitem_next(missing)",
                       [r EXCEPT !.node =
                          IF IsError(@) THEN @
                          ELSE IndexedOptionArray64(NoIdentities, {},
                                                    head.a.index, @)])

\* the typed overloads of a class that raise "undefined operation"
Content_getitem_next_typed(class, c, head, tail) ==
  Entered(class, "getitem_next(" \o head.k \o ")",
          Returns(runtime_error("undefined operation")))

NumpyArray_getitem_next(c, head, tail) ==
  Entered("NumpyArray", "getitem_next",
    CASE head.k = "null" -> Returns(shallow_copy(c))
      [] head.k \in {"at", "range", "array", "jagged"} ->
           Returns(Error("invalid_argument"))
      [] OTHER -> Content_getitem_next(c, head, tail))

\* the rows of its content each list keeps under the head
ListOffsetArray64_picks(c, head) ==
  [j \in 1..length(c) |->
     LET rows == ListOffsetArray64_rows(c, j)
         n == Len(rows)
     IN CASE head.k = "at" ->
               LET at == IF head.a < 0 THEN head.a + n ELSE head.a
               IN IF 0 <= at /\ at < n THEN <<rows[at + 1]>> ELSE <<-1>>
          [] head.k = "range" ->
               SubSeq(rows, regularize_start(head.a[1], n) + 1,
                      regularize_stop(head.a[1], head.a[2], n))
          [] head.k = "array" ->
               [i \in 1..Len(head.a) |->
                  LET at == IF head.a[i] < 0 THEN head.a[i] + n ELSE head.a[i]
                  IN IF 0 <= at /\ at < n THEN rows[at + 1] ELSE -1]
          [] head.k = "jagged" ->
               IF Len(head.a) # length(c) THEN <<-1>>
               ELSE [i \in 1..Len(head.a[j]) |->
                       LET at == IF head.a[j][i] < 0 THEN head.a[j][i] + n
                                 ELSE head.a[j][i]
                       IN IF 0 <= at /\ at < n THEN rows[at + 1] ELSE -1]]

ListOffsetArray64_getitem_next(c, head, tail) ==
  LET nexthead == Slice_head(tail)
      nexttail == Slice_tail(tail)
      picks == ListOffsetArray64_picks(c, head)
  IN Entered("ListOffsetArray64", "getitem_next",
       CASE head.k = "null" -> Returns(shallow_copy(c))
         [] head.k \in {"at", "range", "array", "jagged"} ->
              IF \E i \in 1..Len(Flat(picks)) : Flat(picks)[i] < 0
              THEN Returns(Error("ValidityError"))
              ELSE IF head.k = "at"
              THEN Continue(Returns(carry(c.contents[1], Flat(picks))),
                            nexthead, nexttail)
              ELSE LET kept == ListOffsetArray64_of(
                                 NoIdentities,
                                 IF head.k = "array" THEN {} ELSE c.parameters,
                                 picks, c.contents[1])
                       r == getitem_next(kept.contents[1], nexthead, nexttail)
                   IN [r EXCEPT !.node =
                         ListOffsetArray64(kept.identities, kept.parameters,
                                           kept.index, @)]
         [] OTHER -> Content_getitem_next(c, head, tail))

RecordArray_getitem_next(c, head, tail) ==
  LET nexthead == Slice_head(tail)
      nexttail == Slice_tail(tail)
      emptytail == <<>>
  IN Entered("RecordArray", "getitem_next",
       CASE head.k = "null" -> Returns(shallow_copy(c))
         [] head.k = "field" ->
              Continue(
                Entered("RecordArray", "getitem_next(field)",
                        Continue(Returns(getitem_field(c, head.a)),
                                 Slice_head(emptytail), Slice_tail(emptytail))),
                nexthead, nexttail)
         [] head.k = "fields" ->
              Continue(
                Entered("RecordArray", "getitem_next(fields)",
                        Continue(Returns(getitem_fields(c, head.a)),
                                 Slice_head(emptytail), Slice_tail(emptytail))),
                nexthead, nexttail)
         [] head.k = "missing" -> Content_getitem_next(c, head, tail)
         [] OTHER ->
              LET rs == [i \in 1..Len(c.contents) |->
                           getitem_next(c.contents[i], head, emptytail)]
                  parameters == IF preserves_type(head) THEN c.parameters
                                ELSE {}
                  record == RecordArrayMin(NoIdentities, parameters,
                                        [i \in 1..Len(rs) |-> rs[i].node],
                                        c.istuple, c.recordlookup)
              IN Continue([node |-> record, calls |-> UpToError(rs)],
                          nexthead, nexttail))

UnionArray_getitem_next(c, head, tail) ==
  Entered("UnionArray", "getitem_next",
    CASE head.k = "null" -> Returns(shallow_copy(c))
      [] head.k \in {"at", "range", "array", "jagged"} ->
           LET rs == [i \in 1..Len(c.contents) |->
                        Continue(Returns(UnionArray_project(c, i - 1)),
                                 head, tail)]
               union == UnionArrayOf(c.kind, c.identities, c.parameters,
                                   c.tags, regular_index(c.tags),
                                   [i \in 1..Len(rs) |-> rs[i].node])
           IN [node |-> IF IsError(union) THEN union
                        ELSE UnionArray_simplify_uniontype(union, FALSE),
               calls |-> UpToError(rs)]
      [] head.k \in {"ellipsis", "newaxis", "field", "fields", "missing"} ->
           Content_getitem_next(c, head, tail)
      [] OTHER -> Returns(runtime_error("unrecognized slice type")))

\* a generic getitem_next that hands the element-addressing heads to the
\* typed overloads of UnmaskedArray itself
UnmaskedArray_getitem_next_typed(c, head, tail) ==
  Entered("UnmaskedArray", "getitem_next",
    CASE head.k = "null" -> Returns(shallow_copy(c))
      [] head.k \in {"at", "range", "array", "jagged"} ->
           Content_getitem_next_typed("UnmaskedArray", c, head, tail)
      [] head.k \in {"ellipsis", "newaxis", "field", "fields", "missing"} ->
           Content_getitem_next(c, head, tail)
      [] OTHER -> Returns(runtime_error("unrecognized slice type")))

UnmaskedArray_getitem_next(c, head, tail) ==
  Entered("UnmaskedArray", "getitem_next",
    CASE head.k = "null" -> Returns(shallow_copy(c))
      [] head.k \in {"at", "range", "array", "jagged"} ->
           LET r == getitem_next(c.contents[1], head, tail)
               out2 == UnmaskedArray(c.identities, c.parameters, r.node)
           IN [r EXCEPT !.node = IF IsError(out2) THEN out2
                                 ELSE UnmaskedArray_simplify_optiontype(out2)]
      [] head.k \in {"ellipsis", "newaxis", "field", "fields", "missing"} ->
           Content_getitem_next(c, head, tail)
      [] OTHER -> Returns(runtime_error("unrecognized slice type")))

getitem_next(c, head, tail) ==
  CASE c.kind = "NumpyArray" -> NumpyArray_getitem_next(c, head, tail)
    [] c.kind = "ListOffsetArray64" ->
         ListOffsetArray64_getitem_next(c, head, tail)
    [] c.kind = "RecordArray" -> RecordArray_getitem_next(c, head, tail)
    [] IsUnion(c) -> UnionArray_getitem_next(c, head, tail)
    [] c.kind = "UnmaskedArray" -> UnmaskedArray_getitem_next(c, head, tail)
    [] OTHER -> Returns(c)

(***************************************************************************)
(* The validity rules of the data model: every child at least as long as   *)
(* its parent declares, every tag naming an arm, every index inside its    *)
(* arm or content.                                                         *)
(***************************************************************************)
RECURSIVE IsValid(_)
IsValid(c) ==
  CASE c.kind = "RecordArray" ->
         /\ c.length >= 0
         /\ \A i \in 1..Len(c.contents) :
              length(c.contents[i]) >= c.length /\ IsValid(c.contents[i])
    [] IsUnion(c) ->
         /\ Len(c.index) >= Len(c.tags)
         /\ \A i \in 1..Len(c.tags) :
              /\ 0 <= c.tags[i] /\ c.tags[i] < Len(c.contents)
              /\ 0 <= c.index[i]
              /\ c.index[i] < length(c.contents[c.tags[i] + 1])
         /\ \A i \in 1..Len(c.contents) : IsValid(c.contents[i])
    [] c.kind = "UnmaskedArray" -> IsValid(c.contents[1])
    [] c.kind = "IndexedOptionArray64" ->
         /\ \A i \in 1..Len(c.index) : c.index[i] < length(c.contents[1])
         /\ IsValid(c.contents[1])
    [] c.kind = "Error" -> FALSE
    [] OTHER -> TRUE

\* identities, when present, have one row per row of the node
IdentitiesParity(c) == c.identities.has => c.identities.len = length(c)

(***************************************************************************)
(* The nodes the operations are applied to.                                *)
(***************************************************************************)
NoParameters == {}

SomeParameters == {<<"__doc__", "x">>}

int2 == NumpyArray(NoIdentities, NoParameters, "int64", <<10, 11>>)

int3 == NumpyArray(NoIdentities, NoParameters, "int64", <<20, 21, 22>>)

bool2 == NumpyArray(NoIdentities, NoParameters, "bool", <<1, 0>>)

intp == NumpyArray(NoIdentities, SomeParameters, "int64", <<30, 31>>)

\* every sequence over S of length at most n
RECURSIVE SeqsUpTo(_, _)
SeqsUpTo(S, n) ==
  IF n = 0 THEN {<<>>}
  ELSE LET shorter == SeqsUpTo(S, n - 1)
       IN shorter \cup {Append(t, x) : t \in shorter, x \in S}

\* the field lists, with the keys of the named form
RecordShapes ==
  { [contents |-> <<>>, recordlookup |-> <<>>],
    [contents |-> <<int2>>, recordlookup |-> <<"x">>],
    [contents |-> <<int2, int3>>, recordlookup |-> <<"x", "y">>],
    [contents |-> <<int3, int2>>, recordlookup |-> <<"y", "x">>],
    [contents |-> <<int2, bool2>>, recordlookup |-> <<"x", "x">>] }

Records ==
  { RecordArray(IF ids THEN Identities(len) ELSE NoIdentities, NoParameters,
                sh.contents, tup, IF tup THEN <<>> ELSE sh.recordlookup, len) :
      sh \in RecordShapes, tup \in BOOLEAN, ids \in BOOLEAN,
      len \in 0..(MaxLen + 1) }
  \cup
  { RecordArray(NoIdentities, SomeParameters, <<int2, int3>>, tup,
                IF tup THEN <<>> ELSE <<"x", "y">>, 2) : tup \in BOOLEAN }

recxy == RecordArray(NoIdentities, NoParameters, <<int2, int3>>, FALSE, <<"x", "y">>, 2)

recyx == RecordArray(NoIdentities, NoParameters, <<int3, int2>>, FALSE, <<"y", "x">>, 2)

\* every union over the arms with at most MaxLen rows, index entries 0 or 1
UnionsOver(kind, parameters, arms) ==
  { UnionArrayOf(kind, IF ids THEN Identities(Len(tags)) ELSE NoIdentities,
                 parameters, tags, [i \in 1..Len(tags) |-> bits[i]], arms) :
      ids \in BOOLEAN,
      tags \in SeqsUpTo(0..(Len(arms) - 1), MaxLen),
      bits \in [1..MaxLen -> 0..1] }

FlatArms ==
  { <<int2>>, <<int2, bool2>>, <<int2, int3>>, <<intp, int2>>,
    <<recxy, recyx>>, <<int2, recxy>> }

inner == UnionArrayOf("UnionArray8_32", NoIdentities, NoParameters, <<0, 1>>, <<1, 0>>, <<int2, bool2>>)

innerp == UnionArrayOf("UnionArray8_64", NoIdentities, SomeParameters, <<1, 0>>, <<1, 0>>, <<int2, bool2>>)

middle == UnionArrayOf("UnionArray8_U32", NoIdentities, NoParameters, <<1, 0>>, <<0, 1>>, <<inner, int3>>)

middlep == UnionArrayOf("UnionArray8_64", NoIdentities, NoParameters, <<0, 1>>, <<0, 1>>, <<innerp, int3>>)

innerint == UnionArrayOf("UnionArray8_64", NoIdentities, NoParameters, <<0, 1>>, <<0, 0>>, <<int2, int3>>)

middleint == UnionArrayOf("UnionArray8_64", NoIdentities, NoParameters, <<0, 1>>, <<1, 0>>, <<innerint, int3>>)

NestedArms ==
  { <<inner>>, <<inner, int3>>, <<bool2, inner>>, <<inner, recxy>>,
    <<middle>>, <<middle, bool2>>, <<middlep, int2>>,
    <<middleint>>, <<middleint, int2>> }

Unions ==
  UNION { UnionsOver("UnionArray8_64", NoParameters, arms) : arms \in FlatArms }
  \cup UNION { UnionsOver("UnionArray8_32", NoParameters, arms) :
                 arms \in NestedArms }
  \cup UnionsOver("UnionArray8_U32", SomeParameters, <<int2, bool2>>)
  \cup { UnionArrayOf("UnionArray8_64", NoIdentities, NoParameters,
                      <<0, 2>>, <<0, 0>>, <<int2, bool2>>),
         UnionArrayOf("UnionArray8_64", NoIdentities, NoParameters,
                      <<0, 1>>, <<0, 2>>, <<int2, bool2>>),
         UnionArrayOf("UnionArray8_64", NoIdentities, NoParameters,
                      <<0>>, <<0, 1>>, <<int2, bool2>>),
         UnionArrayOf("UnionArray8_64", NoIdentities, NoParameters,
                      <<-1, 1>>, <<0, 0>>, <<int2, bool2>>),
         UnionArrayOf("UnionArray8_64", NoIdentities, NoParameters,
                      <<0, 1>>, <<-1, 0>>, <<int2, bool2>>),
         UnionArrayOf("UnionArray8_64", NoIdentities, NoParameters,
                      <<0, 0>>, <<0>>, <<int2, bool2>>),
         UnionArrayOf("UnionArray8_64", NoIdentities, NoParameters,
                      <<>>, <<>>, <<>>) }

\* one-row leaves no two of which merge: their parameters differ
tagged(i) == NumpyArray(NoIdentities, {<<"id", ToString(i)>>}, "int64", <<i>>)

\* a union of n arms none of which merges with another, with a row from
\* the first arm and a row from the last
ManyArms(n) == UnionArrayOf("UnionArray8_64", NoIdentities, NoParameters, <<0, n - 1>>, <<0, 0>>, [i \in 1..n |-> tagged(i)])

\* unions at the 127-arm limit, one arm below it and one above it
CapUnions ==
  { ManyArms(n) : n \in (kMaxInt8 - 1)..(kMaxInt8 + 1) }
  \cup { UnionArrayOf("UnionArray8_32", NoIdentities, NoParameters,
                       <<0, 1>>, <<1, 0>>, <<ManyArms(n), int2>>) :
            n \in (kMaxInt8 - 1)..kMaxInt8 }

option2 == IndexedOptionArray64(NoIdentities, NoParameters, <<1, -1>>, int2)

RECURSIVE Wrap(_, _, _)
Wrap(c, ids, n) ==
  IF n = 0 THEN c
  ELSE UnmaskedArray(IF ids THEN Identities(length(c)) ELSE NoIdentities,
                     NoParameters, Wrap(c, ids, n - 1))

Unmaskeds ==
  { Wrap(c, ids, n) : c \in {int2, option2, recxy, inner},
                      ids \in BOOLEAN, n \in 1..MaxWrap }

\* the receivers
Receivers ==
  { c \in Records \cup Unions \cup CapUnions \cup Unmaskeds : ~IsError(c) }

\* list layers: [[20, 21], [22]], [[10], [11]], lists of those lists and a
\* list of records
lista == ListOffsetArray64(NoIdentities, NoParameters, <<0, 2, 3>>, int3)

listb == ListOffsetArray64(NoIdentities, NoParameters, <<0, 1, 2>>, int2)

listlist == ListOffsetArray64(NoIdentities, NoParameters, <<0, 1, 2>>, lista)

listrec == ListOffsetArray64(NoIdentities, NoParameters, <<0, 1, 2>>, recxy)

rec0 == RecordArray(NoIdentities, NoParameters, <<>>, TRUE, <<>>, 2)

\* the receivers of offsets_and_flattened: the valid receivers without an
\* option node, and nodes over list layers
FlattenReceivers ==
  { c \in Records \cup Unions : IsValid(c) }
  \cup { Wrap(c, ids, n) : c \in {int2, recxy, inner, lista, listlist, rec0},
                           ids \in BOOLEAN, n \in 1..MaxWrap }
  \cup UNION { UnionsOver("UnionArray8_64", NoParameters, arms) :
                 arms \in { <<lista, listb>>, <<lista, int2>>,
                            <<listlist, lista>>, <<listlist, listlist>>,
                            <<lista, recxy>>, <<rec0, rec0>>,
                            <<listrec, listlist>> } }
  \cup { UnionArrayOf("UnionArray8_64", NoIdentities, NoParameters,
                      [i \in 1..n |->
                         IF arms[1].kind = "EmptyArray" THEN 1 ELSE 0],
                      [i \in 1..n |-> i - 1], arms) :
           n \in 0..MaxLen,
           arms \in { <<EmptyArray(NoIdentities, NoParameters), listlist>>,
                      <<listlist, EmptyArray(NoIdentities, NoParameters)>>,
                      <<EmptyArray(NoIdentities, NoParameters), lista>>,
                      <<lista, EmptyArray(NoIdentities, NoParameters)>> } }
  \cup { RecordArray(NoIdentities, NoParameters, contents, tup, <<>>, len) :
           contents \in { <<lista>>, <<lista, int2>>, <<rec0>>,
                          <<rec0, recxy>>, <<listlist>>, <<listlist, rec0>>,
                          <<listrec>>, <<lista, listlist>> },
           tup \in {TRUE}, len \in 0..MaxLen }

\* the arguments of merge, reverse_merge and setitem_field
Others ==
  { EmptyArray(NoIdentities, NoParameters),
    EmptyArray(NoIdentities, SomeParameters),
    int2, bool2, intp, recxy, recyx,
    RecordArray(NoIdentities, NoParameters, <<int2, int3>>, TRUE, <<>>, 1),
    RecordArray(NoIdentities, NoParameters, <<>>, TRUE, <<>>, 2),
    RecordArray(NoIdentities, NoParameters, <<>>, FALSE, <<>>, 1),
    RecordArray(NoIdentities, NoParameters, <<int2>>, FALSE, <<"x">>, 2),
    inner, innerp, option2,
    UnmaskedArray(NoIdentities, NoParameters, recxy) }

Keys == {"x", "y", "0", "1"}

(***************************************************************************)
(* The state machine: a receiver node, the last operation applied to it,   *)
(* the arguments of that call, what it returned and, for the operations    *)
(* that are traced, the member functions the call entered.  Only          *)
(* setidentities writes to the receiver.                                   *)
(***************************************************************************)
Blank == EmptyArray(NoIdentities, NoParameters)

\* a std::string returned by a call
String(s) == [Content("String", NoIdentities, NoParameters) EXCEPT !.dtype = s]

NoArgs ==
  [other |-> Blank, key |-> "", ks |-> <<>>, start |-> 0, stop |-> 0,
   where |-> 0, mergebool |-> FALSE, carryindex |-> <<>>, at |-> 0,
   axis |-> 0, depth |-> 0, head |-> SliceItem("null", 0), tail |-> <<>>,
   target |-> 0, receiver |-> "self"]

Init ==
  /\ self \in Receivers
  /\ op = "new"
  /\ args = NoArgs
  /\ out = self
  /\ calls = {}

\* a call whose result is written over the receiver
Call_inplace(name, a, result) ==
  /\ op = "new"
  /\ op' = name
  /\ args' = a
  /\ out' = result
  /\ self' = result
  /\ calls' = {}

\* one call at a time: a call is made on a receiver with no call pending
Call(name, a, result) ==
  /\ op = "new"
  /\ op' = name
  /\ args' = a
  /\ out' = result
  /\ calls' = {}
  /\ UNCHANGED self

Validityerror ==
  Call("validityerror", NoArgs, String(validityerror(self)))

ShallowCopy ==
  /\ IsValid(self)
  /\ Call("shallow_copy", NoArgs, shallow_copy(self))

GetitemRange ==
  /\ IsValid(self)
  /\ \E start \in -1..2, stop \in 0..(MaxLen + 1) :
       Call("getitem_range", [NoArgs EXCEPT !.start = start, !.stop = stop],
            getitem_range(self, start, stop))

GetitemRangeNowrap ==
  /\ IsValid(self)
  /\ \E start \in 0..length(self), stop \in 0..length(self) :
       /\ start <= stop
       /\ Call("getitem_range_nowrap",
               [NoArgs EXCEPT !.start = start, !.stop = stop],
               getitem_range_nowrap(self, start, stop))

\* an element returned by getitem_at
Item(row) ==
  [Content("Item", NoIdentities, NoParameters) EXCEPT !.contents = <<row>>]

\* the exception of a failure, with its message
failure(message) ==
  [Error("ValidityError") EXCEPT !.parameters = {<<"message", message>>}]

\* what the caller of getitem_at gets: the element, or the exception
Returned(row) == IF row.k = "raised" THEN failure(row.what) ELSE Item(row)

\* the receiver is valid, or is a union whose own tags or index are wrong
CanGetItem ==
  \/ IsValid(self)
  \/ /\ IsUnion(self)
     /\ \A i \in 1..Len(self.contents) : IsValid(self.contents[i])

GetitemAt ==
  /\ CanGetItem
  /\ \E at \in (0 - MaxLen - 2)..(MaxLen + 1) :
       Call("getitem_at", [NoArgs EXCEPT !.at = at],
            Returned(getitem_at(self, at)))

Carry ==
  /\ IsValid(self)
  /\ \E carryindex \in SeqsUpTo(0..MaxLen, 2)
                         \cup {carry_arange(length(self))} :
       Call("carry", [NoArgs EXCEPT !.carryindex = carryindex],
            carry(self, carryindex))

GetitemField ==
  /\ IsValid(self)
  /\ \E key \in Keys :
       Call("getitem_field", [NoArgs EXCEPT !.key = key],
            getitem_field(self, key))

GetitemFields ==
  /\ IsValid(self)
  /\ \E ks \in SeqsUpTo({"x", "y"}, 2) :
       Call("getitem_fields", [NoArgs EXCEPT !.ks = ks],
            getitem_fields(self, ks))

SetitemField ==
  /\ IsValid(self)
  /\ self.kind = "RecordArray"
  /\ \E key \in Keys, what \in {Blank, int2, int3, bool2} :
       Call("setitem_field", [NoArgs EXCEPT !.key = key, !.other = what],
            RecordArray_setitem_field(self, key, what))

SetitemFieldAt ==
  /\ IsValid(self)
  /\ self.kind = "RecordArray"
  /\ \E where \in (0 - 1)..2, what \in {Blank, int2, int3} :
       Call("setitem_field_at", [NoArgs EXCEPT !.where = where, !.other = what],
            RecordArray_setitem_field_at(self, where, what))

Astuple ==
  /\ IsValid(self)
  /\ self.kind = "RecordArray"
  /\ Call("astuple", NoArgs, RecordArray_astuple(self))

Merge ==
  /\ IsValid(self)
  /\ \E other \in Others :
       Call("merge", [NoArgs EXCEPT !.other = other], merge(self, other))

ReverseMerge ==
  /\ IsValid(self)
  /\ IsUnion(self) \/ self.kind = "UnmaskedArray"
  /\ \E other \in Others :
       Call("reverse_merge", [NoArgs EXCEPT !.other = other],
            reverse_merge(self, other))

SimplifyUniontype ==
  /\ IsValid(self)
  /\ IsUnion(self)
  /\ \E mergebool \in BOOLEAN :
       Call("simplify_uniontype", [NoArgs EXCEPT !.mergebool = mergebool],
            UnionArray_simplify_uniontype(self, mergebool))

Project ==
  /\ IsValid(self)
  /\ IsUnion(self)
  /\ \E which \in (0 - 1)..Len(self.contents) :
       Call("project", [NoArgs EXCEPT !.where = which],
            UnionArray_project(self, which))

SimplifyOptiontype ==
  /\ IsValid(self)
  /\ self.kind = "UnmaskedArray"
  /\ Call("simplify_optiontype", NoArgs, UnmaskedArray_simplify_optiontype(self))

\* setidentities(identities) and, with identities of the length of the
\* receiver, setidentities(): the receiver itself is written
Setidentities ==
  /\ IsValid(self)
  /\ op = "new"
  /\ \E identities \in {NoIdentities, Identities(length(self)),
                         Identities(length(self) + 1)} :
       LET r == setidentities(self, identities)
       IN /\ self' = r.node
          /\ op' = "setidentities"
          /\ args' = NoArgs
          /\ out' = IF r.raised
                    THEN failure("content and its identities must have the same length")
                    ELSE r.node
          /\ calls' = {}

\* b = self.shallow_copy() followed by b.setidentities(identities): the copy
\* holds the pointers to the receiver's children, so what the call writes to
\* the children of b it writes to the children of the receiver; the
\* identities of b itself are a member of b alone
SetidentitiesOnCopy ==
  /\ IsValid(self)
  /\ op = "new"
  /\ \E identities \in {NoIdentities, Identities(length(self)),
                         Identities(length(self) + 1)} :
       LET b == shallow_copy(self)
           r == setidentities(b, identities)
       IN /\ self' = [self EXCEPT !.contents = r.node.contents]
          /\ op' = "setidentities"
          /\ args' = [NoArgs EXCEPT !.receiver = "copy"]
          /\ out' = IF r.raised
                    THEN failure("content and its identities must have the same length")
                    ELSE r.node
          /\ calls' = {}

\* the caller drops the returned node
Return ==
  /\ op # "new"
  /\ op' = "new"
  /\ args' = NoArgs
  /\ out' = self
  /\ calls' = {}
  /\ UNCHANGED self

Next ==
  \/ Return
  \/ Validityerror
  \/ ShallowCopy
  \/ GetitemRange
  \/ GetitemRangeNowrap
  \/ GetitemAt
  \/ Carry
  \/ GetitemField
  \/ GetitemFields
  \/ SetitemField
  \/ SetitemFieldAt
  \/ Astuple
  \/ Merge
  \/ ReverseMerge
  \/ SimplifyUniontype
  \/ Project
  \/ SimplifyOptiontype
  \/ Setidentities
  \/ SetidentitiesOnCopy

Spec == Init /\ [][Next]_vars

(***************************************************************************)
(* Flattening, applied to the nodes that hold list layers as well.         *)
(***************************************************************************)
FlattenInit ==
  /\ self \in FlattenReceivers
  /\ op = "new"
  /\ args = NoArgs
  /\ out = self
  /\ calls = {}

\* what an out-of-bounds read of an offsets buffer may lead to
Outcomes(result) ==
  IF result.kind = "Undefined"
  THEN { failure("flatten"), Pair(<<0>>, Blank), Pair(<<>>, Blank) }
  ELSE { result }

OffsetsAndFlattened ==
  /\ \E axis \in 0..MaxAxis, depth \in 0..MaxDepth :
       \E result \in Outcomes(offsets_and_flattened(self, axis, depth)) :
         Call("offsets_and_flattened",
              [NoArgs EXCEPT !.axis = axis, !.depth = depth], result)

IsNone ==
  /\ \E axis \in 0..MaxAxis, depth \in 0..MaxDepth :
       Call("is_none", [NoArgs EXCEPT !.axis = axis, !.depth = depth],
            is_none(self, axis, depth))

Rpad ==
  /\ \E target \in 0..(MaxLen + 1), axis \in 0..MaxAxis, depth \in 0..MaxDepth :
       Call("rpad",
            [NoArgs EXCEPT !.target = target, !.axis = axis, !.depth = depth],
            rpad(self, target, axis, depth))

RpadAndClip ==
  /\ \E target \in 0..(MaxLen + 1), axis \in 0..MaxAxis, depth \in 0..MaxDepth :
       Call("rpad_and_clip",
            [NoArgs EXCEPT !.target = target, !.axis = axis, !.depth = depth],
            rpad_and_clip(self, target, axis, depth))

FlattenNext ==
  \/ Return
  \/ OffsetsAndFlattened
  \/ IsNone
  \/ Rpad
  \/ RpadAndClip

FlattenSpec == FlattenInit /\ [][FlattenNext]_vars

(***************************************************************************)
(* Slicing, applied to nodes over list layers: getitem wraps the array in  *)
(* a list layer of one row before it calls getitem_next.                   *)
(***************************************************************************)
\* records of lists, also with no field and with fields longer than the
\* record, unions of lists and unmasked nodes over them
SliceReceivers ==
  { c \in
    { RecordArray(NoIdentities, parameters, sh.contents, tup,
                IF tup THEN <<>> ELSE sh.recordlookup, len) :
      sh \in { [contents |-> <<>>, recordlookup |-> <<>>],
               [contents |-> <<lista>>, recordlookup |-> <<"x">>],
               [contents |-> <<lista, listb>>, recordlookup |-> <<"x", "y">>],
               [contents |-> <<listlist, lista>>,
                recordlookup |-> <<"x", "y">>],
               [contents |-> <<listrec>>, recordlookup |-> <<"x">>] },
      parameters \in {NoParameters, SomeParameters},
      tup \in BOOLEAN, len \in 0..MaxLen } :
      c.contents = <<>> \/ c.length <= minlength(c.contents) }
  \cup UNION { UnionsOver("UnionArray8_64", NoParameters, arms) :
                 arms \in { <<lista, listrec>>, <<listlist, listrec>> } }
  \cup { Wrap(c, ids, n) : c \in {lista, listlist, listrec},
                           ids \in BOOLEAN, n \in 1..MaxWrap }

SliceHeads ==
  { SliceItem("null", 0), SliceItem("ellipsis", 0), SliceItem("newaxis", 0) }
  \cup { SliceItem("at", at) : at \in -1..2 }
  \cup { SliceItem("range", <<start, stop>>) : start \in 0..1, stop \in 1..2 }
  \cup { SliceItem("array", a) : a \in {<<0>>, <<0, 0>>, <<1>>} }
  \cup { SliceItem("jagged", a) : a \in {<<<<0>>, <<0>>>>, <<<<>>, <<0, 0>>>>} }
  \cup { SliceItem("field", key) : key \in {"x", "z"} }
  \cup { SliceItem("fields", ks) : ks \in {<<>>, <<"x">>, <<"y", "x">>} }
  \cup { SliceItem("missing",
                   [index |-> <<0, -1>>, content |-> SliceItem("array", <<0>>)]) }

SliceTails ==
  {<<>>}
  \cup { <<head>> : head \in { SliceItem("at", 0), SliceItem("range", <<0, 1>>),
                               SliceItem("field", "x"), SliceItem("ellipsis", 0),
                               SliceItem("newaxis", 0) } }
  \cup { <<SliceItem("at", 0), SliceItem("field", "x")>>,
         <<SliceItem("field", "x"), SliceItem("at", 0)>> }

SliceInit ==
  /\ self \in SliceReceivers
  /\ op = "new"
  /\ args = NoArgs
  /\ out = self
  /\ calls = {}

GetitemNext ==
  /\ op = "new"
  /\ \E head \in SliceHeads, tail \in SliceTails :
       LET r == getitem_next(self, head, tail)
       IN /\ op' = "getitem_next"
          /\ args' = [NoArgs EXCEPT !.head = head, !.tail = tail]
          /\ out' = r.node
          /\ calls' = r.calls
  /\ UNCHANGED self

SliceNext ==
  \/ Return
  \/ GetitemNext

SliceSpec == SliceInit /\ [][SliceNext]_vars

(***************************************************************************)
(* Properties.                                                             *)
(***************************************************************************)
IsRecordOrUnion(c) == c.kind = "RecordArray" \/ IsUnion(c)

\* the arms of a union, those of its union arms included, one level down
ArmsOneLevel(c) ==
  {c.contents[i] : i \in 1..Len(c.contents)}
  \cup UNION {{c.contents[i].contents[j] : j \in 1..Len(c.contents[i].contents)} :
                i \in {i \in 1..Len(c.contents) : IsUnion(c.contents[i])}}

\* C1: simplify_uniontype on a valid union, arms that are unions included,
\* returns a node of the same length whose every row is the row of the
\* receiver at that position (merged arms are addressed past the rows the
\* canonical arm had before the merge).
C1_SimplifyPreservesRows ==
  (op = "simplify_uniontype" /\ ~IsError(out))
    => /\ length(out) = length(self)
       /\ Rows(out) = Rows(self)

\* a union with a union arm and a mergeable plain arm was flattened into a
\* union of fewer arms, and has rows
C1_Witness ==
  /\ op = "simplify_uniontype"
  /\ \E i \in 1..Len(self.contents) : IsUnion(self.contents[i])
  /\ length(self) = MaxLen
  /\ IsUnion(out)
  /\ Len(out.contents) < Cardinality(ArmsOneLevel(self)) - 1
  /\ \E i \in 1..Len(out.index) : out.index[i] >= 2

\* C2: whenever merge returns for a RecordArray or UnionArray receiver, the
\* result has length(receiver) + length(argument) rows.
C2_MergeLength ==
  (op = "merge" /\ IsRecordOrUnion(self) /\ ~IsError(out))
    => length(out) = length(self) + length(args.other)

\* two records whose fields are stored longer than the declared length
\* were merged field by field
C2_Witness ==
  /\ op = "merge"
  /\ self.kind = "RecordArray" /\ args.other.kind = "RecordArray"
  /\ numfields(self) > 0
  /\ minlength(self.contents) > length(self)
  /\ minlength(args.other.contents) > length(args.other)
  /\ out.kind = "RecordArray"

\* C3: merging an EmptyArray into a RecordArray or UnionArray returns a node
\* with the receiver's length and rows, whatever the parameters of the two.
C3_MergeEmptyRightIdentity ==
  (op = "merge" /\ IsRecordOrUnion(self) /\ args.other.kind = "EmptyArray")
    => /\ ~IsError(out)
       /\ length(out) = length(self)
       /\ Rows(out) = Rows(self)

\* a record with rows met an EmptyArray of different parameters and the
\* two-arm union came back
C3_Witness ==
  /\ op = "merge"
  /\ self.kind = "RecordArray" /\ args.other.kind = "EmptyArray"
  /\ length(self) > 0 /\ numfields(self) > 0
  /\ self.parameters # args.other.parameters
  /\ IsUnion(out)

\* b is a with its arms reordered: the same arms, the same rows addressed
\* through the permuted tags
SameUpToArmOrder(a, b) ==
  /\ IsUnion(a) /\ IsUnion(b)
  /\ Len(a.contents) = Len(b.contents)
  /\ a.tags \in Seq(0..(Len(a.contents) - 1))
  /\ Len(a.tags) = Len(b.tags)
  /\ a.index = b.index
  /\ \E pi \in Permutations(1..Len(a.contents)) :
       /\ \A k \in 1..Len(a.contents) : b.contents[pi[k]] = a.contents[k]
       /\ \A i \in 1..Len(a.tags) : b.tags[i] = pi[a.tags[i] + 1] - 1

\* C4: whenever simplify_uniontype returns a union, simplifying that union
\* again with the same mergebool returns it unchanged up to the order of
\* its arms, for receivers nested to any depth.
C4_SimplifyIdempotent ==
  (op = "simplify_uniontype" /\ IsUnion(out))
    => SameUpToArmOrder(out, UnionArray_simplify_uniontype(out, args.mergebool))

\* a union whose arm is a union of unions came back with mergeable arms
\* still apart, and a second pass returns fewer arms
C4_Witness ==
  /\ op = "simplify_uniontype"
  /\ \E i \in 1..Len(self.contents) :
       /\ IsUnion(self.contents[i])
       /\ \E j \in 1..Len(self.contents[i].contents) :
            IsUnion(self.contents[i].contents[j])
  /\ IsUnion(out)
  /\ LET again == UnionArray_simplify_uniontype(out, args.mergebool)
     IN IsUnion(again) /\ Len(again.contents) < Len(out.contents)

\* C5: when the arms of a union, those of its union arms included, all end
\* in one canonical arm, simplify_uniontype returns canonical[0].carry(index),
\* which is not a union, has one row per tag and the receiver's rows.
C5_SingleArmCollapse ==
  (op = "simplify_uniontype"
     /\ Len(simplify_canonical(self, args.mergebool).contents) = 1)
    => /\ ~IsUnion(out)
       /\ out = carry(simplify_canonical(self, args.mergebool).contents[1],
                      simplify_canonical(self, args.mergebool).index)
       /\ length(out) = Len(self.tags)
       /\ Rows(out) = Rows(self)

\* one canonical arm was left and the node returned is a union
C5_Witness ==
  /\ op = "simplify_uniontype"
  /\ Len(simplify_canonical(self, args.mergebool).contents) = 1
  /\ length(self) > 0
  /\ IsUnion(out)

\* C6: whenever simplify_optiontype of an UnmaskedArray is again an
\* UnmaskedArray, simplify_optiontype of that result returns the same node,
\* however many Unmasked layers the receiver has.
C6_UnmaskedSimplifyIdempotent ==
  (op = "simplify_optiontype" /\ out.kind = "UnmaskedArray")
    => UnmaskedArray_simplify_optiontype(out) = out

\* three Unmasked layers lost one, and the result loses another
C6_Witness ==
  /\ op = "simplify_optiontype"
  /\ self.contents[1].kind = "UnmaskedArray"
  /\ self.contents[1].contents[1].kind = "UnmaskedArray"
  /\ out = self.contents[1]
  /\ UnmaskedArray_simplify_optiontype(out) = out.contents[1]

\* C7: for every record r, tuple or named, with or without a field of that
\* key, and every v as long as r, r.setitem_field(key, v).getitem_field(key)
\* is v: the same length and the same rows.
C7_FieldRoundTrip ==
  (op = "setitem_field" /\ length(args.other) = length(self))
    => /\ ~IsError(out)
       /\ ~IsError(getitem_field(out, args.key))
       /\ length(getitem_field(out, args.key)) = length(args.other)
       /\ Rows(getitem_field(out, args.key)) = Rows(args.other)

\* a named record that already had the key got a second field under it,
\* and reading the key returns the old field
C7_Witness ==
  /\ op = "setitem_field"
  /\ length(args.other) = length(self)
  /\ ~self.istuple /\ haskey(self, args.key)
  /\ out.kind = "RecordArray"
  /\ Rows(getitem_field(out, args.key)) = Rows(getitem_field(self, args.key))
  /\ Rows(getitem_field(out, args.key)) # Rows(args.other)

\* the recordlookup, when present, has one key per field and no key twice
RecordFieldInvariant(c) ==
  ~c.istuple =>
    /\ Len(c.recordlookup) = Len(c.contents)
    /\ \A i, j \in 1..Len(c.recordlookup) :
         c.recordlookup[i] = c.recordlookup[j] => i = j

\* C8: every RecordArray there is, constructed or returned by an
\* operation, satisfies the record field invariant.
C8_RecordFieldInvariant ==
  /\ self.kind = "RecordArray" => RecordFieldInvariant(self)
  /\ out.kind = "RecordArray" => RecordFieldInvariant(out)

\* a record with distinct keys was given a field under a key it has, and
\* the record returned holds the key twice
C8_Witness ==
  /\ op = "setitem_field"
  /\ RecordFieldInvariant(self)
  /\ out.kind = "RecordArray"
  /\ ~RecordFieldInvariant(out)

\* C9 as stated: every node the constructors accepted has an empty
\* validityerror.
C9_ConstructedIsValid ==
  op = "validityerror" => out = String("")

\* C9 amended: every node the constructors accepted that satisfies the
\* validity rules (fields at least as long as the record, tags and index in
\* range, recursively) has an empty validityerror.
C9_ValidHasNoValidityError ==
  (op = "validityerror" /\ IsValid(self)) => out = String("")

\* a record whose shortest field is exactly as long as the record passed
C9_Witness ==
  /\ op = "validityerror"
  /\ IsValid(self)
  /\ self.kind = "RecordArray"
  /\ numfields(self) > 0 /\ length(self) > 0
  /\ minlength(self.contents) = length(self)
  /\ out = String("")

\* the operations of C10
ParityOps ==
  {"getitem_range", "getitem_range_nowrap", "carry", "getitem_fields",
   "setitem_field", "setitem_field_at", "shallow_copy"}

\* C10: applied to a node that satisfies identities parity, each of
\* getitem_range, getitem_range_nowrap, carry, getitem_fields, setitem_field
\* and shallow_copy returns a node that satisfies it.
C10_IdentitiesParityPreserved ==
  (op \in ParityOps /\ IdentitiesParity(self) /\ ~IsError(out))
    => IdentitiesParity(out)

\* a record with identities was sliced to fewer rows and kept all of its
\* identities
C10_Witness ==
  /\ op = "getitem_range"
  /\ self.kind = "RecordArray"
  /\ IdentitiesParity(self) /\ self.identities.has
  /\ out.kind = "RecordArray"
  /\ length(out) < length(self)
  /\ out.identities = self.identities

\* the number of arms in the list the last call built; 0 when it built none
ArmsBuilt ==
  CASE op = "merge" /\ IsUnion(self) /\ parameters_equal(self, args.other)
         /\ args.other.kind # "EmptyArray" ->
         Len(self.contents)
           + (IF IsUnion(args.other) THEN Len(args.other.contents) ELSE 1)
    [] op = "reverse_merge" /\ IsUnion(self) -> Len(self.contents) + 1
    [] op = "simplify_uniontype" ->
         Len(simplify_canonical(self, args.mergebool).contents)
    [] OTHER -> 0

\* C11: simplify_uniontype, merge and reverse_merge raise whenever the arm
\* list they built holds more than 127 arms, do not raise on account of the
\* cap when it holds 127 or fewer, and so never return a union of more than
\* 127 arms.
C11_ArmCapOnGrowth ==
  (op \in {"simplify_uniontype", "merge", "reverse_merge"} /\ IsUnion(self))
    => /\ ArmsBuilt > kMaxInt8 => IsError(out)
       /\ ArmsBuilt <= kMaxInt8 => out # Error("runtime_error")
       /\ IsUnion(out) => Len(out.contents) <= kMaxInt8

\* a union of 128 arms met an EmptyArray and came back as it was
C11_Witness ==
  /\ op = "merge"
  /\ IsUnion(self) /\ Len(self.contents) = kMaxInt8 + 1
  /\ args.other.kind = "EmptyArray"
  /\ out = self

\* C12: the constructor enforces the 127-arm limit, as the growing
\* operations do, so no union of more than 127 arms exists in any state.
C12_ArmCapEverywhere ==
  /\ IsUnion(self) => Len(self.contents) <= kMaxInt8
  /\ IsUnion(out) => Len(out.contents) <= kMaxInt8

\* the constructor returned a union of 128 arms
C12_Witness ==
  /\ op = "new"
  /\ IsUnion(self) /\ Len(self.contents) = kMaxInt8 + 1
  /\ IsValid(self)

\* every entry of the carry index is a position of the receiver
CarryInRange == \A j \in 1..Len(args.carryindex) :
                  0 <= args.carryindex[j] /\ args.carryindex[j] < length(self)

\* C13: for a Record, Union or Unmasked node c and an index array k with
\* entries in [0, len(c)), c.carry(k) has length len(k) and its row j is c's
\* row k[j]; c.carry(arange(len(c))) has the rows of c; a union gathers its
\* tags and its index at the same positions and shares its arms unchanged.
C13_CarryGathers ==
  (op = "carry" /\ CarryInRange)
    => /\ ~IsError(out)
       /\ out.kind = self.kind
       /\ length(out) = Len(args.carryindex)
       /\ \A j \in 1..Len(args.carryindex) :
            getitem_at_nowrap(out, j - 1)
              = getitem_at_nowrap(self, args.carryindex[j])
       /\ args.carryindex = carry_arange(length(self))
            => Rows(out) = Rows(self)
       /\ IsUnion(self)
            => /\ out.tags = [j \in 1..Len(args.carryindex) |->
                                self.tags[args.carryindex[j] + 1]]
               /\ out.index = [j \in 1..Len(args.carryindex) |->
                                 self.index[args.carryindex[j] + 1]]
               /\ out.contents = self.contents

\* a union of two rows was carried by [1, 0] and gave its rows swapped
C13_Witness ==
  /\ op = "carry"
  /\ IsUnion(self) /\ length(self) = 2
  /\ args.carryindex = <<1, 0>>
  /\ self.index[1] # self.index[2]
  /\ length(out) = 2
  /\ getitem_at_nowrap(out, 0) = getitem_at_nowrap(self, 1)
  /\ getitem_at_nowrap(out, 0) # getitem_at_nowrap(out, 1)

\* C14: getitem_at on a Record, Union or Unmasked node of length n returns
\* for -n <= i < 0 the element getitem_at(i + n) returns; raises "index out
\* of range" for i outside [-n, n); for a union and an in-range i returns
\* contents[tags[i]][index[i]], and raises when tags[i] is outside
\* [0, numcontents) or index[i] is outside [0, len(contents[tags[i]])).
C14_GetitemAt ==
  op = "getitem_at" =>
    LET n == length(self)
        i == args.at
        r == IF i < 0 THEN i + n ELSE i
    IN /\ (i < 0 - n \/ i >= n) => out = failure("index out of range")
       /\ (0 - n <= i /\ i < 0) => out = Returned(getitem_at(self, i + n))
       /\ (0 - n <= i /\ i < n /\ ~IsUnion(self))
            => out = Item(getitem_at_nowrap(self, r))
       /\ (0 - n <= i /\ i < n /\ IsUnion(self))
            => LET tag == self.tags[r + 1]
                   index == self.index[r + 1]
               IN IF /\ 0 <= tag /\ tag < Len(self.contents)
                     /\ 0 <= index
                     /\ index < length(self.contents[tag + 1])
                  THEN out = Item(getitem_at_nowrap(self.contents[tag + 1],
                                                    index))
                  ELSE IsError(out) /\ out # failure("index out of range")

\* the last row of a two-row union was asked for as -1 and came from the arm
\* its tag names
C14_Witness ==
  /\ op = "getitem_at"
  /\ IsUnion(self) /\ length(self) = 2
  /\ args.at = -1
  /\ self.tags = <<0, 1>> /\ self.index = <<1, 0>>
  /\ out = Item(getitem_at_nowrap(self.contents[2], 0))
  /\ out # Item(getitem_at_nowrap(self.contents[1], 1))

\* the trimmed fields of a record, the arms of a union, the content of an
\* UnmaskedArray: the nodes offsets_and_flattened is pushed into
FlattenChildren(c) ==
  IF c.kind = "RecordArray"
  THEN { getitem_range(c.contents[i], 0, length(c)) : i \in 1..Len(c.contents) }
  ELSE { c.contents[i] : i \in 1..Len(c.contents) }

RECURSIVE HasListLayer(_)
HasListLayer(c) ==
  \/ c.kind = "ListOffsetArray64"
  \/ \E i \in 1..Len(c.contents) : HasListLayer(c.contents[i])

AxisZeroError == invalid_argument("axis=0 not allowed for flatten")

RecordAxisError ==
  invalid_argument("arrays of records cannot be flattened (but their contents can be; try a different 'axis')")

NewFieldAt ==
  IF op = "setitem_field" \/ args.where >= numfields(self)
  THEN numfields(self) + 1
  ELSE args.where + 1

\* C16: setitem_field raises InvalidArgument and produces no record when
\* len(what) differs from the record's length or, in the positional form,
\* where < 0; otherwise it returns a record with exactly one more field, the
\* length, parameters and identities of r, and the fields of r in their
\* original order around the new one.
C16_SetitemField ==
  op \in {"setitem_field", "setitem_field_at"} =>
    IF \/ length(args.other) # length(self)
       \/ op = "setitem_field_at" /\ args.where < 0
    THEN out = Error("invalid_argument")
    ELSE /\ out.kind = "RecordArray"
         /\ numfields(out) = numfields(self) + 1
         /\ length(out) = length(self)
         /\ out.parameters = self.parameters
         /\ out.identities = self.identities
         /\ out.contents[NewFieldAt] = args.other
         /\ [i \in 1..numfields(self) |->
               out.contents[IF i < NewFieldAt THEN i ELSE i + 1]]
              = self.contents

\* a field went in front of the two fields of a record of two rows whose
\* second field is longer than the record
C16_Witness ==
  /\ op = "setitem_field_at"
  /\ args.where = 0 /\ args.other = int2
  /\ self.contents = <<int2, int3>> /\ length(self) = 2
  /\ out.kind = "RecordArray"
  /\ out.contents = <<int2, int2, int3>>
  /\ length(out) = 2

C18_SimplifyFlat ==
  (op = "simplify_uniontype" /\ IsUnion(out))
    => \A j \in 1..Len(out.contents) : ~IsUnion(out.contents[j])

\* a valid union whose arm is a union of unions came back as a union with
\* an arm that is a union
C18_Witness ==
  /\ op = "simplify_uniontype"
  /\ IsValid(self)
  /\ \E i \in 1..Len(self.contents) :
       /\ IsUnion(self.contents[i])
       /\ \E j \in 1..Len(self.contents[i].contents) :
            IsUnion(self.contents[i].contents[j])
  /\ length(self) > 0
  /\ IsUnion(out)
  /\ Rows(out) = Rows(self)
  /\ \E j \in 1..Len(out.contents) : IsUnion(out.contents[j])
\* the merge of a union with a node of equal parameters that is not Empty,
\* the arms of the two being at most 127 together
MergeAppends ==
  /\ op = "merge"
  /\ IsUnion(self)
  /\ parameters_equal(self, args.other)
  /\ args.other.kind # "EmptyArray"
  /\ Len(self.contents)
       + (IF IsUnion(args.other) THEN Len(args.other.contents) ELSE 1)
       <= kMaxInt8

\* C19: u.merge(v) for unions u and v of equal parameters and at most 127
\* arms together is a UnionArray8_64 of u's arms then v's arms, whose first
\* len(u) tags and index entries are u's and whose next len(v) entries are
\* v's index with v's tags raised by u.numcontents(); a v that is no union
\* (and not Empty) is one new last arm with tag u.numcontents() and index
\* 0..len(v)-1; either way the rows are u's rows followed by v's rows.
C19_MergeConcatenates ==
  MergeAppends =>
    LET u == self
        v == args.other
        n == length(u)
        m == length(v)
        N == Len(u.contents)
    IN /\ out.kind = "UnionArray8_64"
       /\ Len(out.tags) = n + m
       /\ Len(out.index) = n + m
       /\ \A i \in 1..n : out.tags[i] = u.tags[i] /\ out.index[i] = u.index[i]
       /\ IF IsUnion(v)
          THEN /\ out.contents = u.contents \o v.contents
               /\ \A i \in 1..m : /\ out.tags[n + i] = v.tags[i] + N
                                   /\ out.index[n + i] = v.index[i]
          ELSE /\ out.contents = Append(u.contents, v)
               /\ \A i \in 1..m : /\ out.tags[n + i] = N
                                   /\ out.index[n + i] = i - 1
       /\ Rows(out) = Rows(u) \o Rows(v)

\* a union with rows took the rows of another union with rows
C19_Witness ==
  /\ MergeAppends
  /\ IsUnion(args.other)
  /\ length(self) > 0
  /\ length(args.other) > 0
  /\ \E i \in 1..Len(args.other.tags) : args.other.tags[i] > 0
  /\ out.kind = "UnionArray8_64"
\* res is `first` as arm 0 followed by the arms of the union u: len(first)
\* entries of tag 0 and index 0, 1, ..., then u's tags raised by one with
\* u's index
OtherThenArms(res, u, first) ==
  LET n == length(u)
      m == length(first)
  IN /\ res.kind = "UnionArray8_64"
     /\ res.contents = <<first>> \o u.contents
     /\ Len(res.tags) = m + n
     /\ Len(res.index) = m + n
     /\ \A i \in 1..m : res.tags[i] = 0 /\ res.index[i] = i - 1
     /\ \A i \in 1..n : /\ res.tags[m + i] = u.tags[i] + 1
                         /\ res.index[m + i] = u.index[i]
     /\ Rows(res) = Rows(first) \o Rows(u)

\* C20: u.reverse_merge(other), for a union u of fewer than 127 arms, is a
\* UnionArray8_64 whose arm 0 is other and whose arms 1..N are u's arms, with
\* len(other) entries of tag 0 and index 0..len(other)-1 and then u's tags
\* raised by 1 with u's index, so its rows are other's rows then u's rows;
\* a record merged with a union v of equal parameters is v.reverse_merge of
\* the record.
C20_ReverseMergeLayout ==
  /\ (op = "reverse_merge" /\ IsUnion(self)
        /\ Len(self.contents) < kMaxInt8)
       => OtherThenArms(out, self, args.other)
  /\ (op = "merge" /\ self.kind = "RecordArray" /\ IsUnion(args.other)
        /\ parameters_equal(self, args.other)
        /\ Len(args.other.contents) < kMaxInt8)
       => /\ out = UnionArray_reverse_merge(args.other, self)
          /\ OtherThenArms(out, args.other, self)

\* a union with rows was put behind a node of two rows or more
C20_Witness ==
  /\ op = "reverse_merge"
  /\ IsUnion(self)
  /\ length(self) > 0
  /\ length(args.other) > 1
  /\ \E i \in 1..Len(self.tags) : self.tags[i] > 0
  /\ OtherThenArms(out, self, args.other)
\* both tuples of the same number of fields, or both named with the same
\* set of keys
SameFields(c, other) ==
  \/ c.istuple /\ other.istuple /\ numfields(c) = numfields(other)
  \/ /\ ~c.istuple /\ ~other.istuple
     /\ {keys(c)[i] : i \in 1..numfields(c)}
          = {keys(other)[i] : i \in 1..numfields(other)}

\* C21: a record merged with a record of equal parameters succeeds exactly
\* when both are tuples of the same number of fields or both are named with
\* the same key set; the result then has self's keys in self's order and
\* its rows are self's rows followed by other's rows, each field trimmed to
\* the length of its own record; otherwise invalid_argument is raised.
C21_RecordMerge ==
  (op = "merge" /\ self.kind = "RecordArray"
     /\ args.other.kind = "RecordArray"
     /\ parameters_equal(self, args.other))
    => IF SameFields(self, args.other)
       THEN /\ out.kind = "RecordArray"
            /\ keys(out) = keys(self)
            /\ length(out) = length(self) + length(args.other)
            /\ Rows(out) = Rows(self) \o Rows(args.other)
       ELSE out = Error("invalid_argument")
\* a record that holds the key x twice met a record with the one key x:
\* the same key set, and the merge raised
C21_Witness ==
  /\ op = "merge"
  /\ self.kind = "RecordArray"
  /\ args.other.kind = "RecordArray"
  /\ parameters_equal(self, args.other)
  /\ SameFields(self, args.other)
  /\ numfields(self) # numfields(args.other)
  /\ out = Error("invalid_argument")
\* the rows of the union c whose tag is which, in order
RowsTagged(c, which) ==
  LET at == {i \in 1..Len(c.tags) : c.tags[i] = which}
  IN [j \in 1..Cardinality(at) |->
        Rows(c)[CHOOSE i \in at :
                  Cardinality({k \in at : k < i}) = j - 1]]

\* C22: for a valid union u, u.project(a) with a out of [0, numcontents)
\* raises invalid_argument; otherwise it has one row per position tagged a,
\* the j-th being u's row at the j-th such position; and the union of u's
\* tags, regular_index(u.tags) and the projections of all arms has u's rows.
C22_ProjectReconstructs ==
  (op = "project" /\ IsValid(self))
    => IF ~(0 <= args.where /\ args.where < Len(self.contents))
       THEN out = Error("invalid_argument")
       ELSE /\ ~IsError(out)
            /\ Rows(out) = RowsTagged(self, args.where)
            /\ Rows(UnionArrayOf("UnionArray8_64", NoIdentities, {},
                                 self.tags, regular_index(self.tags),
                                 [a \in 1..Len(self.contents) |->
                                    UnionArray_project(self, a - 1)]))
                 = Rows(self)

\* the projection of an arm that holds a row no tag names, from a union
\* whose rows are not in the order of the arm
C22_Witness ==
  /\ op = "project"
  /\ IsValid(self)
  /\ 0 <= args.where /\ args.where < Len(self.contents)
  /\ 0 < length(out)
  /\ length(out) < length(self.contents[args.where + 1])
  /\ Len(self.tags) > length(out)
  /\ Rows(out) = RowsTagged(self, args.where)
\* what the arms of the receiver return for the axis and depth of the call
ArmPairs ==
  [i \in 1..Len(self.contents) |->
     offsets_and_flattened(self.contents[i], args.axis, args.depth)]

\* C23: a union flattened at an axis deeper than depth, none of whose arms
\* raises, returns the combined form (offsets of length len(tags) + 1 and a
\* UnionArray8_64 over the flattened arms) when any arm, at whatever
\* position, returned non-empty offsets, and the uncombined form (no
\* offsets, the receiver's tags and index) only when every arm returned
\* empty offsets.
C23_FlattenCombines ==
  (op = "offsets_and_flattened" /\ IsUnion(self)
     /\ axis_wrap_if_negative(args.axis) > args.depth
     /\ ~AnyError(ArmPairs))
    => IF \E i \in 1..Len(ArmPairs) : Len(ArmPairs[i].index) # 0
       THEN /\ out.kind = "Pair"
            /\ Len(out.index) = Len(self.tags) + 1
            /\ out.contents[1].kind = "UnionArray8_64"
            /\ out.contents[1].contents
                 = [i \in 1..Len(ArmPairs) |-> ArmPairs[i].contents[1]]
       ELSE /\ out.kind = "Pair"
            /\ out.index = <<>>
            /\ out.contents[1].tags = self.tags
            /\ out.contents[1].index = self.index

\* the first arm returned offsets, the last arm none, and the union came
\* back uncombined
C23_Witness ==
  /\ op = "offsets_and_flattened"
  /\ IsUnion(self)
  /\ Len(self.tags) > 0
  /\ axis_wrap_if_negative(args.axis) > args.depth
  /\ ~AnyError(ArmPairs)
  /\ Len(ArmPairs[1].index) # 0
  /\ Len(ArmPairs[Len(ArmPairs)].index) = 0
  /\ out.kind = "Pair"
  /\ out.index = <<>>
\* every union among c and the nodes below it has an arm and an index at
\* least as long as its tags
RECURSIVE UnionsWellFormed(_)
UnionsWellFormed(c) ==
  /\ IsUnion(c) => (Len(c.contents) >= 1 /\ Len(c.index) >= Len(c.tags))
  /\ \A i \in 1..Len(c.contents) : UnionsWellFormed(c.contents[i])

\* C24: every union there is, constructed or returned by getitem_range,
\* carry, merge, reverse_merge, simplify_uniontype, getitem_field or any
\* other operation, has at least one arm and len(index) >= len(tags), so
\* the "len(index) < len(tags)" branches of project, carry,
\* simplify_uniontype and setidentities are never taken.
C24_UnionStructure ==
  /\ UnionsWellFormed(self)
  /\ out.kind # "Item" => UnionsWellFormed(out)
  /\ UnionsWellFormed(args.other)

\* a slice of a union whose index is longer than its tags is a union again
C24_Witness ==
  /\ op = "getitem_range"
  /\ IsUnion(self)
  /\ Len(self.index) > Len(self.tags)
  /\ IsUnion(out)
  /\ Len(out.tags) > 0
  /\ UnionsWellFormed(out)

\* the typed overloads that raise "undefined operation"
UndefinedOperations ==
  { <<class, "getitem_next(" \o k \o ")">> :
      class \in {"RecordArray", "UnionArray", "UnmaskedArray"},
      k \in {"at", "range", "array", "jagged"} }

\* C25: whatever the head and the tail, a getitem_next on a record, a union
\* or an unmasked node never enters getitem_next(at), getitem_next(range),
\* getitem_next(array) or getitem_next(jagged) of one of these three classes.
C25_UndefinedUnreachable ==
  op = "getitem_next" => calls \cap UndefinedOperations = {}

\* an element-addressing head went through the generic getitem_next of all
\* three classes and produced a node
C25_Witness ==
  /\ op = "getitem_next"
  /\ args.head.k \in {"at", "range", "array", "jagged"}
  /\ \E class \in {"RecordArray", "UnionArray", "UnmaskedArray"} :
       self.kind = class \/ (class = "UnionArray" /\ IsUnion(self))
  /\ {<<"UnmaskedArray", "getitem_next">>, <<"RecordArray", "getitem_next">>}
       \subseteq calls
  /\ ~IsError(out)

\* the head is sent to the fields and every field answers it with as many
\* rows as the field holds
FieldsKeepRows(c, head) ==
  /\ head.k \notin {"field", "fields", "missing"}
  /\ \A i \in 1..Len(c.contents) :
       LET r == getitem_next(c.contents[i], head, <<>>).node
       IN ~IsError(r) /\ length(r) = length(c.contents[i])

\* C29: a record's getitem_next with an empty tail, for a head other than
\* Field, Fields and Missing that every field answers with as many rows as
\* the field holds, returns a record with the receiver's number of rows, also
\* for a record with no field and for fields longer than the record.
C29_GetitemNextKeepsRows ==
  (/\ op = "getitem_next"
   /\ self.kind = "RecordArray"
   /\ args.tail = <<>>
   /\ FieldsKeepRows(self, args.head))
  => out.kind = "RecordArray" /\ length(out) = length(self)

\* a record with no field and two rows, sliced by a range
C29_Witness ==
  /\ op = "getitem_next"
  /\ self.kind = "RecordArray"
  /\ self.contents = <<>>
  /\ length(self) = 2
  /\ args.head.k = "range"
  /\ args.tail = <<>>
  /\ out.kind = "RecordArray"
  /\ length(out) = 0

\* the receiver's variant around the results of op on its children
Reassembled(c, children) ==
  CASE c.kind = "RecordArray" ->
         RecordArray(NoIdentities, {}, children, c.istuple, c.recordlookup,
                     c.length)
    [] c.kind = "UnmaskedArray" -> UnmaskedArray(NoIdentities, {}, children[1])
    [] IsUnion(c) ->
         LET union == UnionArrayOf(c.kind, NoIdentities, {}, c.tags, c.index,
                                   children)
         IN IF IsError(union) THEN union
            ELSE UnionArray_simplify_uniontype(union, FALSE)

\* C26: away from its own axis a record, a union and an unmasked node
\* answer is_none with their own variant around the is_none of every field,
\* arm or content, each asked with the axis and the depth the node received.
C26_DepthTransparent ==
  (op = "is_none" /\ args.axis # args.depth)
  => out = Reassembled(self, [i \in 1..Len(self.contents) |->
                                is_none(self.contents[i], args.axis,
                                        args.depth)])

\* a union of lists asked for the masks one list axis down
C26_Witness ==
  /\ op = "is_none"
  /\ IsUnion(self)
  /\ \A i \in 1..Len(self.contents) :
       self.contents[i].kind = "ListOffsetArray64"
  /\ length(self) > 0
  /\ args.axis = 1
  /\ args.depth = 0
  /\ ~IsError(out)

\* C27: at its own axis rpad_and_clip returns exactly target rows, also
\* when the node is longer than target, and rpad returns the larger of
\* target and the node's row count.
C27_AxisZeroPadding ==
  /\ (op = "rpad_and_clip" /\ args.axis = args.depth)
       => length(out) = args.target
  /\ (op = "rpad" /\ args.axis = args.depth)
       => length(out) = IF args.target > length(self) THEN args.target
                        ELSE length(self)

\* a node clipped at its own axis to fewer rows than it holds
C27_Witness ==
  /\ op = "rpad_and_clip"
  /\ args.axis = args.depth
  /\ args.target < length(self)
  /\ self.kind = "UnmaskedArray"

\* C28: getitem_fields with keys the record has, also with no key at all,
\* returns a record of the receiver's row count with one field per key, in
\* the order of the keys, each trimmed to the receiver's row count.
C28_FieldsKeepRows ==
  (/\ op = "getitem_fields"
   /\ self.kind = "RecordArray"
   /\ \A i \in 1..Len(args.ks) : haskey(self, args.ks[i]))
  => /\ out.kind = "RecordArray"
     /\ length(out) = length(self)
     /\ Len(out.contents) = Len(args.ks)
     /\ \A i \in 1..Len(args.ks) :
          out.contents[i] = getitem_range_nowrap(field(self, args.ks[i]), 0,
                                                 length(self))

\* the empty list of keys asked of a record that holds rows
C28_Witness ==
  /\ op = "getitem_fields"
  /\ self.kind = "RecordArray"
  /\ args.ks = <<>>
  /\ length(self) > 0
  /\ out.kind = "RecordArray"

\* C30: a setidentities on a shallow copy leaves the node the copy was taken
\* from, and every node below it, as it was.
C30_NoLeak ==
  [][(op' = "setidentities" /\ args'.receiver = "copy") => self' = self]_vars

\* identities were set on the copy of a node whose own identities are
\* absent, and a child of the node carries identities
C30_Witness ==
  /\ op = "setidentities"
  /\ args.receiver = "copy"
  /\ ~IsError(out)
  /\ out.identities.has
  /\ ~self.identities.has
  /\ \E i \in 1..Len(self.contents) : self.contents[i].identities.has

====
